---- MODULE Spec2Model ----
(***************************************************************************)
(* A model of PyMDFS: the query fan-out of MdfsClient.sel, the filename    *)
(* wildcard inference, and the format dispatcher.                          *)
(*                                                                         *)
(* Conventions                                                             *)
(*  - a text string is a sequence of one-character strings;                *)
(*  - a byte buffer is a sequence of integers 0..255;                      *)
(*  - a datetime is the number of seconds since 2024-01-01T00:00:00, and   *)
(*    every datetime of the model lies in January 2024;                    *)
(*  - an optional value is a record [some, v].                             *)
(***************************************************************************)
EXTENDS Integers, Sequences, FiniteSets, TLC

VARIABLES
    pc,          \* position of MdfsClient.sel: "idle", "fetch", "done"
    args,        \* the arguments of the current call of sel
    requests,    \* client.py:61, the list of leaf requests
    datas,       \* client.py:70, the per-leaf results collected so far
    last,        \* what the leaf executed last did (its _sel run)
    logged,      \* client.py:67, the number of leaf failures logged
    ret,         \* how sel ended: the value returned or the error raised
    wpc,         \* position of guess_filename_wildcard: "idle", "listed", "done"
    wListing,    \* the names of the directory listing (resultMap keys)
    wResult,     \* the result of guess_filename_wildcard
    wTime,       \* the init time and the two forecast hours a template is
                 \* formatted with, and the two filenames obtained
    gpc,         \* position of guess_interface_class: "idle", "done"
    gInput,      \* the filename and the two buffers classified
    gResult,     \* the classification of each of the two buffers
    tpc,         \* position of a text decoder's read: "idle", "done"
    tInput,      \* the format and the tokens read
    tResult,     \* how read ended, and the head and data it left on the object
    d5pc,        \* position of Diamond5.read: "idle", "done"
    d5Input,     \* the tokens read
    d5Result,    \* how read ended, and the index and data it built
    d7pc,        \* position of Diamond7: "idle", "read", "written", "reread"
    d7Input,     \* the lines read
    d7Result,    \* the object read, the lines written and the object read back
    d14pc,       \* position of a Diamond14 section parser: "idle", "done"
    d14Input,    \* the section and its lines
    d14Result,   \* how the parser ended and the records it built
    lpc,         \* position of LatLon.decompress: "idle", "done"
    lInput,      \* the grid size, the background value and the stream of runs
    lResult,     \* how decompress ended and the grid it returned
    mpc,         \* position of MdfsGridData.read: "idle", "done"
    mInput,      \* the first header and the length of the buffer
    mResult,     \* how read ended and the blocks it decoded
    spc,         \* position of MdfsStationData.read: "idle", "done"
    sInput,      \* the station records of the buffer
    sResult,     \* how read ended and the table it built
    qpc,         \* position of a grid decoder's sel: "idle", "done"
    qInput,      \* the decoder, its latitude axis and the bounds of the slice
    qResult,     \* the rows of the grid that sel returned
    hpc,         \* position of a header round trip: "idle", "read", "written"
    hInput,      \* the format and the header tokens read
    hResult,     \* the head decoded and the header tokens written
    kpc,         \* position of get_path_file_list: "idle", "done"
    kInput,      \* the directory tree of the server and the path listed
    kResult,     \* how the listing ended and the paths it collected
    fpc,         \* position of to_frame: "idle", "done"
    fInput,      \* the format and the tokens or lines read
    fResult,     \* how read and to_frame ended and the table built
    apc,         \* position of Diamond14: "idle", "read", "done"
    aInput,      \* the section names of the file and the name asked for
    aResult      \* the data of the object and what sel and indexing returned

vars == <<pc, args, requests, datas, last, logged, ret,
          wpc, wListing, wResult, wTime, gpc, gInput, gResult,
          tpc, tInput, tResult, d5pc, d5Input, d5Result, d7pc, d7Input, d7Result,
          d14pc, d14Input, d14Result, lpc, lInput, lResult, mpc, mInput, mResult,
          spc, sInput, sResult, qpc, qInput, qResult, hpc, hInput, hResult,
          kpc, kInput, kResult, fpc, fInput, fResult, apc, aInput, aResult>>

selVars == <<pc, args, requests, datas, last, logged, ret>>
wildVars == <<wpc, wListing, wResult, wTime>>
guessVars == <<gpc, gInput, gResult>>
textVars == <<tpc, tInput, tResult>>
d5Vars == <<d5pc, d5Input, d5Result>>
d7Vars == <<d7pc, d7Input, d7Result>>
d14Vars == <<d14pc, d14Input, d14Result>>
latlonVars == <<lpc, lInput, lResult>>
gridVars == <<mpc, mInput, mResult>>
stationVars == <<spc, sInput, sResult>>
clientVars == <<selVars, wildVars, guessVars>>
decoderVars == <<textVars, d5Vars, d7Vars, d14Vars, latlonVars, gridVars, stationVars>>
gridSelVars == <<qpc, qInput, qResult>>
headVars == <<hpc, hInput, hResult>>
walkVars == <<kpc, kInput, kResult>>
frameVars == <<fpc, fInput, fResult>>
artistVars == <<apc, aInput, aResult>>
laterVars == <<gridSelVars, headVars, walkVars, frameVars, artistVars>>

(***************************************************************************)
(* Bounds of the model.                                                    *)
(***************************************************************************)
MaxList == 2        \* longest list given for one dimension of sel
MaxLeaves == 4      \* largest Cartesian product executed
MaxListing == 2     \* most names in a directory listing
MaxTail == 3        \* most bytes following the sampled head of a buffer
PrefixLen == 12     \* the bounded prefix two buffers are compared on

(***************************************************************************)
(* Optional values and generic helpers.                                    *)
(***************************************************************************)
Some(x) == [some |-> TRUE, v |-> x]
NoneInt == [some |-> FALSE, v |-> 0]
NoneStr == [some |-> FALSE, v |-> ""]
NoneSeq == [some |-> FALSE, v |-> <<>>]

RECURSIVE Concat(_)
Concat(ss) == IF ss = <<>> THEN <<>> ELSE Head(ss) \o Concat(Tail(ss))

Min(a, b) == IF a <= b THEN a ELSE b

(***************************************************************************)
(* Characters.                                                             *)
(***************************************************************************)
DigitChars == <<"0", "1", "2", "3", "4", "5", "6", "7", "8", "9">>
DigitSet == {DigitChars[i] : i \in 1..10}
IsDigit(c) == c \in DigitSet

LowerChars == <<"a", "b", "c", "d", "e", "f", "g", "h", "i", "j", "k", "l", "m",
                "n", "o", "p", "q", "r", "s", "t", "u", "v", "w", "x", "y", "z">>
UpperChars == <<"A", "B", "C", "D", "E", "F", "G", "H", "I", "J", "K", "L", "M",
                "N", "O", "P", "Q", "R", "S", "T", "U", "V", "W", "X", "Y", "Z">>
LowerSet == {LowerChars[i] : i \in 1..26}
UpperSet == {UpperChars[i] : i \in 1..26}

\* str.upper() on the lower-case letters
UpperOf == [c \in LowerSet |-> UpperChars[CHOOSE i \in 1..26 : LowerChars[i] = c]]
UpperChar(c) == IF c \in LowerSet THEN UpperOf[c] ELSE c

Upper(s) == [i \in 1..Len(s) |-> UpperChar(s[i])]

EndsWith(s, suffix) ==
    /\ Len(s) >= Len(suffix)
    /\ SubSeq(s, Len(s) - Len(suffix) + 1, Len(s)) = suffix

\* the code points of the characters of the model
OrdOf ==
    [c \in DigitSet \cup LowerSet \cup UpperSet \cup {".", "_", "-"} |->
        CASE c = "-" -> 45
          [] c = "." -> 46
          [] c \in DigitSet -> 47 + CHOOSE i \in 1..10 : DigitChars[i] = c
          [] c \in UpperSet -> 64 + CHOOSE i \in 1..26 : UpperChars[i] = c
          [] c = "_" -> 95
          [] c \in LowerSet -> 96 + CHOOSE i \in 1..26 : LowerChars[i] = c]
Ord(c) == OrdOf[c]

\* Python's str order: by code point, a proper prefix first
StrLess(a, b) ==
    \E k \in 1..(Min(Len(a), Len(b)) + 1) :
        /\ \A j \in 1..(k - 1) : a[j] = b[j]
        /\ \/ k > Len(a) /\ k <= Len(b)
           \/ k <= Len(a) /\ k <= Len(b) /\ Ord(a[k]) < Ord(b[k])

(***************************************************************************)
(* datetime.strftime and str.format.                                       *)
(***************************************************************************)
Pad2(n) == <<DigitChars[(n \div 10) + 1], DigitChars[(n % 10) + 1]>>

\* one strftime directive applied to datetime t
Directive(d, t) ==
    CASE d = "Y" -> <<"2", "0", "2", "4">>
      [] d = "y" -> <<"2", "4">>
      [] d = "m" -> <<"0", "1">>
      [] d = "d" -> Pad2(1 + (t \div 86400))
      [] d = "H" -> Pad2((t % 86400) \div 3600)
      [] d = "M" -> Pad2((t % 3600) \div 60)
      [] d = "S" -> Pad2(t % 60)

Strftime(pattern, t) == Concat([i \in 1..Len(pattern) |-> Directive(pattern[i], t)])

RECURSIVE IntDigits(_)
IntDigits(n) ==
    IF n < 10 THEN <<DigitChars[n + 1]>>
    ELSE Append(IntDigits(n \div 10), DigitChars[(n % 10) + 1])

RECURSIVE ZeroPad(_, _)
ZeroPad(ds, w) == IF Len(ds) >= w THEN ds ELSE ZeroPad(<<"0">> \o ds, w)

\* format(n, '03d'): sign-aware zero padding to width 3
Format03d(n) ==
    IF n >= 0 THEN ZeroPad(IntDigits(n), 3)
    ELSE <<"-">> \o ZeroPad(IntDigits(-n), 2)

\* The pieces of a format template: a literal character, an {inittime:...}
\* field with its strftime directives, or the {fh:03d} field.
Lit(c) == [field |-> "", spec |-> <<c>>]
InitField(pattern) == [field |-> "inittime", spec |-> pattern]
FhField == [field |-> "fh", spec |-> <<"0", "3", "d">>]

Lits(s) == [i \in 1..Len(s) |-> Lit(s[i])]

FormatPiece(p, inittime, fh) ==
    CASE p.field = "" -> p.spec
      [] p.field = "inittime" -> Strftime(p.spec, inittime)
      [] p.field = "fh" -> Format03d(fh)

\* client.py:130, wildcard.format(inittime=inittime, fh=fh)
FormatTemplate(tpl, inittime, fh) ==
    Concat([i \in 1..Len(tpl) |-> FormatPiece(tpl[i], inittime, fh)])

(***************************************************************************)
(* Filename wildcard inference (client.py:179-199).                        *)
(***************************************************************************)
DigitsAt(s, i, n) ==
    /\ i >= 1
    /\ i + n - 1 <= Len(s)
    /\ \A j \in i..(i + n - 1) : IsDigit(s[j])

CharAt(s, i, cs) == i >= 1 /\ i <= Len(s) /\ s[i] \in cs

\* Each shape, matched with its digits starting at position i, after the
\* characters the leading .* of the pattern has taken.
\* r'.*(\d{14})\.(\d{3})'
Shape1At(s, i) == DigitsAt(s, i, 14) /\ CharAt(s, i + 14, {"."}) /\ DigitsAt(s, i + 15, 3)
\* r'.*(\d{8})\.(\d{3})$'
Shape2At(s, i) ==
    /\ DigitsAt(s, i, 8) /\ CharAt(s, i + 8, {"."}) /\ DigitsAt(s, i + 9, 3)
    /\ i + 11 = Len(s)
\* r'.*(\d{8})([._])(\d{6}).*'
Shape3At(s, i) == DigitsAt(s, i, 8) /\ CharAt(s, i + 8, {".", "_"}) /\ DigitsAt(s, i + 9, 6)
\* r'.*(\d{8})([._])(\d{4}).*'
Shape4At(s, i) == DigitsAt(s, i, 8) /\ CharAt(s, i + 8, {".", "_"}) /\ DigitsAt(s, i + 9, 4)
\* r'.*(\d{14}).*'
Shape5At(s, i) == DigitsAt(s, i, 14)

ShapeAt(k, s, i) ==
    CASE k = 1 -> Shape1At(s, i)
      [] k = 2 -> Shape2At(s, i)
      [] k = 3 -> Shape3At(s, i)
      [] k = 4 -> Shape4At(s, i)
      [] k = 5 -> Shape5At(s, i)

\* re.match(shape k, s)
ShapeMatches(k, s) == \E i \in 1..Len(s) : ShapeAt(k, s, i)

\* where the greedy first group (.*) of re.sub lets the digits start: the
\* last position at which the rest of the pattern still matches
GreedyStart(k, s) ==
    CHOOSE i \in 1..Len(s) :
        ShapeAt(k, s, i) /\ \A j \in (i + 1)..Len(s) : ~ShapeAt(k, s, j)

YmdHMS == <<"Y", "m", "d", "H", "M", "S">>
ymdH == <<"y", "m", "d", "H">>
Ymd == <<"Y", "m", "d">>
HMS == <<"H", "M", "S">>
HM == <<"H", "M">>

\* client.py:183, '{inittime:%Y%m%d%H%M%S}.{fh:03d}'
Wildcard143 == <<InitField(YmdHMS), Lit("."), FhField>>

\* a mutation of Wildcard83: a literal 000 where the forecast hour belongs
Wildcard83Literal == <<InitField(ymdH), Lit("."), Lit("0"), Lit("0"), Lit("0")>>

\* client.py:185, '{inittime:%y%m%d%H}.{fh:03d}'
Wildcard83 == <<InitField(ymdH), Lit("."), FhField>>

\* the template the branch of shape k assigns (client.py:183-195)
ShapeWildcard(k, s) ==
    CASE k = 1 -> Wildcard143
      [] k = 2 -> Wildcard83
      [] k = 3 ->
            LET i == GreedyStart(3, s)
            IN  Lits(SubSeq(s, 1, i - 1)) \o <<InitField(Ymd), Lit(s[i + 8]), InitField(HMS)>>
                    \o Lits(SubSeq(s, i + 15, Len(s)))
      [] k = 4 ->
            LET i == GreedyStart(4, s)
            IN  Lits(SubSeq(s, 1, i - 1)) \o <<InitField(Ymd), Lit(s[i + 8]), InitField(HM)>>
                    \o Lits(SubSeq(s, i + 13, Len(s)))
      [] k = 5 ->
            LET i == GreedyStart(5, s)
            IN  Lits(SubSeq(s, 1, i - 1)) \o <<InitField(YmdHMS)>>
                    \o Lits(SubSeq(s, i + 14, Len(s)))

\* the order in which the if/elif chain tries the shapes (client.py:182-197)
ShapeOrderSwapped == <<1, 3, 2, 5, 4>>
ShapeOrder == <<1, 2, 3, 4, 5>>

\* sorted(list(filelist.resultMap.keys()))[-1]
Latest(names) == CHOOSE n \in names : \A m \in names : m = n \/ StrLess(m, n)

WildcardOk(tpl) == [ok |-> TRUE, err |-> "", wildcard |-> tpl]
WildcardErr(e) == [ok |-> FALSE, err |-> e, wildcard |-> <<>>]

\* the if/elif chain on the latest name
WildcardOfName(latest) ==
    IF \E p \in 1..5 : ShapeMatches(ShapeOrder[p], latest)
    THEN LET p == CHOOSE q \in 1..5 :
                     /\ ShapeMatches(ShapeOrder[q], latest)
                     /\ \A r \in 1..(q - 1) : ~ShapeMatches(ShapeOrder[r], latest)
         IN  WildcardOk(ShapeWildcard(ShapeOrder[p], latest))
    ELSE WildcardErr("NotImplementedError")

\* a reply of get_file_list: an error raised, or the names of the directory
ListingErr(e) == [err |-> e, names |-> {}]
ListingOf(names) == [err |-> "", names |-> names]

\* guess_filename_wildcard(directory), given what get_file_list answers
GuessFilenameWildcard(reply) ==
    IF reply.err # "" THEN WildcardErr(reply.err)
    ELSE IF reply.names = {} THEN WildcardErr("IndexError")
    ELSE WildcardOfName(Latest(reply.names))

(***************************************************************************)
(* Format dispatcher (client.py:136-177).                                  *)
(***************************************************************************)
IsCont(b) == b >= 128 /\ b <= 191

\* the length of the UTF-8 sequence a lead byte starts, 0 for no lead byte
Utf8Width(b) ==
    CASE b <= 127 -> 1
      [] b >= 194 /\ b <= 223 -> 2
      [] b >= 224 /\ b <= 239 -> 3
      [] b >= 240 /\ b <= 244 -> 4
      [] OTHER -> 0

Utf8SecondOk(b1, b2) ==
    CASE b1 = 224 -> b2 >= 160 /\ b2 <= 191
      [] b1 = 237 -> b2 >= 128 /\ b2 <= 159
      [] b1 = 240 -> b2 >= 144 /\ b2 <= 191
      [] b1 = 244 -> b2 >= 128 /\ b2 <= 143
      [] OTHER -> IsCont(b2)

Utf8CodePoint(bs, n) ==
    CASE n = 1 -> bs[1]
      [] n = 2 -> (bs[1] - 192) * 64 + (bs[2] - 128)
      [] n = 3 -> (bs[1] - 224) * 4096 + (bs[2] - 128) * 64 + (bs[3] - 128)
      [] n = 4 -> (bs[1] - 240) * 262144 + (bs[2] - 128) * 4096
                      + (bs[3] - 128) * 64 + (bs[4] - 128)

\* bytes.decode(): the code points of the buffer, or a failure (strict UTF-8)
RECURSIVE Utf8Decode(_)
Utf8Decode(bs) ==
    IF bs = <<>> THEN [ok |-> TRUE, cps |-> <<>>]
    ELSE LET n == Utf8Width(bs[1])
         IN  IF \/ n = 0
                \/ Len(bs) < n
                \/ n >= 2 /\ ~Utf8SecondOk(bs[1], bs[2])
                \/ \E j \in 3..n : ~IsCont(bs[j])
             THEN [ok |-> FALSE, cps |-> <<>>]
             ELSE LET rest == Utf8Decode(SubSeq(bs, n + 1, Len(bs)))
                  IN  IF rest.ok
                      THEN [ok |-> TRUE, cps |-> <<Utf8CodePoint(bs, n)>> \o rest.cps]
                      ELSE rest

\* the characters str.split() separates on
IsSpace(cp) ==
    \/ cp >= 9 /\ cp <= 13
    \/ cp >= 28 /\ cp <= 32
    \/ cp \in {133, 160, 5760, 8232, 8233, 8239, 8287, 12288}
    \/ cp >= 8192 /\ cp <= 8202

\* str.split(): the maximal runs of non-space characters. cur is the token
\* being read.
RECURSIVE SplitFrom(_, _)
SplitFrom(cps, cur) ==
    IF cps = <<>> THEN (IF cur = <<>> THEN <<>> ELSE <<cur>>)
    ELSE IF IsSpace(cps[1])
         THEN (IF cur = <<>> THEN <<>> ELSE <<cur>>) \o SplitFrom(Tail(cps), <<>>)
         ELSE SplitFrom(Tail(cps), Append(cur, cps[1]))

Split(cps) == SplitFrom(cps, <<>>)

\* str.lower(), on the code points that can lower to a letter of 'diamond'
LowerCp(cp) == IF cp >= 65 /\ cp <= 90 THEN cp + 32 ELSE cp
LowerCps(cps) == [i \in 1..Len(cps) |-> LowerCp(cps[i])]

MdfsMagic == <<109, 100, 102, 115>>                  \* b'mdfs'
DiamondWord == <<100, 105, 97, 109, 111, 110, 100>>  \* 'diamond'

\* the modules pymdfs/diamond/diamondN.py, each defining class DiamondN
DiamondModules == {1, 2, 3, 4, 5, 7, 8, 11, 14, 16, 31, 41, 42}

RECURSIVE NatCps(_)
NatCps(n) == IF n < 10 THEN <<48 + n>> ELSE Append(NatCps(n \div 10), 48 + (n % 10))

\* struct 'h': a signed 16-bit integer, low byte first
Int16(lo, hi) == LET u == lo + 256 * hi IN IF u >= 32768 THEN u - 65536 ELSE u

ClassOk(c, n) == [ok |-> TRUE, cls |-> c, subtype |-> n, err |-> ""]
ClassErr(e) == [ok |-> FALSE, cls |-> "", subtype |-> 0, err |-> e]

\* client.py:167-174, the text branch
GuessDiamond(contents) ==
    LET text == Utf8Decode(contents)
        tokens == Split(text.cps)
    IN  IF ~text.ok THEN ClassErr("UnicodeDecodeError")
        ELSE IF Len(tokens) < 2 THEN ClassErr("ValueError")
        ELSE IF LowerCps(tokens[1]) = DiamondWord
             THEN IF \E n \in DiamondModules : NatCps(n) = tokens[2]
                  THEN ClassOk("Diamond", CHOOSE n \in DiamondModules : NatCps(n) = tokens[2])
                  ELSE ClassErr("ModuleNotFoundError")
             ELSE ClassErr("NotImplementedError")

\* guess_interface_class(filename, contents)
GuessInterfaceClass(filename, contents) ==
    IF EndsWith(Upper(filename), <<"A", "W", "X">>) THEN ClassOk("Awx", 0)
    ELSE IF EndsWith(Upper(filename), <<"L", "A", "T", "L", "O", "N">>)
         THEN ClassOk("LatLon", 0)
    ELSE IF Len(contents) < 6 THEN ClassErr("struct.error")
    ELSE IF SubSeq(contents, 1, 4) = MdfsMagic
         THEN IF Int16(contents[5], contents[6]) \in {4, 11}
              THEN ClassOk("MdfsGridData", Int16(contents[5], contents[6]))
              ELSE ClassOk("MdfsStationData", Int16(contents[5], contents[6]))
    ELSE GuessDiamond(contents)

(***************************************************************************)
(* One leaf: MdfsClient._sel (client.py:94-134).                           *)
(***************************************************************************)
\* int(x / 3600.): the quotient truncated towards zero
HoursOf(seconds) ==
    IF seconds >= 0 THEN seconds \div 3600 ELSE -((-seconds) \div 3600)

\* a mutation of ResolveFh: the quotient rounded down
ResolveFhFloor(inittime, fh, leadtime) ==
    IF fh.some THEN fh.v
    ELSE IF leadtime.some /\ inittime.some THEN (leadtime.v - inittime.v) \div 3600
    ELSE 0

\* client.py:117-121
ResolveFh(inittime, fh, leadtime) ==
    IF fh.some THEN fh.v
    ELSE IF leadtime.some /\ inittime.some THEN HoursOf(leadtime.v - inittime.v)
    ELSE 0

\* client.py:123-124, with fh already resolved
ResolveInittime(inittime, fh, leadtime) ==
    IF inittime.some THEN inittime.v ELSE leadtime.v - fh * 3600

\* client.py:110-113: the path components of f'{datasource}/{varname}[/{level}]'
Directory(datasource, varname, level) ==
    <<datasource, IF varname.some THEN varname.v ELSE "None">>
        \o (IF level.some THEN <<level.v>> ELSE <<>>)

\* a reply of get_data: an error raised, or the bytes of the file together
\* with whether the decoder's read and sel succeed on them
DataErr(e) == [err |-> e, bytes |-> <<>>, decodes |-> FALSE]
DataOf(bs, d) == [err |-> "", bytes |-> bs, decodes |-> d]

\* what the sel of each decoder returns
KindOf(cls) ==
    CASE cls.cls = "MdfsGridData" -> IF cls.subtype = 11 THEN "Dataset" ELSE "DataArray"
      [] cls.cls = "MdfsStationData" -> "DataFrame"
      [] cls.cls \in {"LatLon", "Awx"} -> "DataArray"
      [] cls.cls = "Diamond" ->
            IF cls.subtype = 4 THEN "DataArray"
            ELSE IF cls.subtype = 11 THEN "Dataset"
            ELSE IF cls.subtype = 14 THEN "dict"
            ELSE "DataFrame"

\* a decoded artifact, and Python's None
Artifact(kind, directory, filename) == [kind |-> kind, dir |-> directory, file |-> filename]
NoneResult == Artifact("None", <<>>, <<>>)

\* the run of one leaf: where it stopped, what it raised, what it returned
LeafRun(stage, e, directory, inittime, fh, filename, val) ==
    [stage |-> stage, err |-> e, dir |-> directory, inittime |-> inittime,
     fh |-> fh, file |-> filename, val |-> val]
NoLeaf == LeafRun("", "", <<>>, 0, 0, <<>>, NoneResult)

\* _sel(*request, **kwargs), given what guess_filename_wildcard gives when it
\* is called and what the server answers to the download
SelLeaf(req, kw, guessed, dreply) ==
    LET directory == Directory(req[1], req[4], kw.level)
    IN  IF ~req[2].some /\ ~req[5].some
        THEN LeafRun("assert", "AssertionError", directory, 0, 0, <<>>, NoneResult)
        ELSE
        LET fh == ResolveFh(req[2], req[3], req[5])
            inittime == ResolveInittime(req[2], fh, req[5])
            wc == IF kw.wildcard.some THEN WildcardOk(kw.wildcard.v) ELSE guessed
            filename == FormatTemplate(wc.wildcard, inittime, fh)
            cls == GuessInterfaceClass(filename, dreply.bytes)
        IN  IF ~wc.ok
            THEN LeafRun("wildcard", wc.err, directory, inittime, fh, <<>>, NoneResult)
            ELSE IF dreply.err # ""
            THEN LeafRun("get_data", dreply.err, directory, inittime, fh, filename, NoneResult)
            ELSE IF ~cls.ok
            THEN LeafRun("dispatch", cls.err, directory, inittime, fh, filename, NoneResult)
            ELSE IF ~dreply.decodes
            THEN LeafRun("decode", "DecodeError", directory, inittime, fh, filename, NoneResult)
            ELSE LeafRun("done", "", directory, inittime, fh, filename,
                         Artifact(KindOf(cls), directory, filename))

\* the errors a leaf can raise; each is a subclass of Exception
LeafErrors ==
    {"AssertionError", "NotImplementedError", "IndexError", "IOError",
     "FileNotFoundError", "struct.error", "UnicodeDecodeError", "ValueError",
     "ModuleNotFoundError", "DecodeError"}

\* a mutation of Catches: only the failures of the remote access are caught
CatchesRemoteOnly(e) == e \in {"IOError", "FileNotFoundError"}

\* client.py:66, except Exception
Catches(e) == e \in LeafErrors

(***************************************************************************)
(* The fan-out: MdfsClient.sel (client.py:40-92).                          *)
(***************************************************************************)
\* an argument of sel: absent, a scalar, or a list
ArgNone(blank) == [tag |-> "none", val |-> blank, items |-> <<>>]
ArgScalar(x) == [tag |-> "scalar", val |-> x, items |-> <<>>]
ArgList(xs, blank) == [tag |-> "list", val |-> blank, items |-> xs]

\* client.py:56: [datasource] if isinstance(datasource, str) else datasource
NormDatasource(a) == IF a.tag = "scalar" THEN <<a.val>> ELSE a.items

\* client.py:57-60: [x] if isinstance(x, T) or x is None else x
NormOptional(a, none) ==
    CASE a.tag = "scalar" -> <<Some(a.val)>>
      [] a.tag = "none" -> <<none>>
      [] a.tag = "list" -> [i \in 1..Len(a.items) |-> Some(a.items[i])]

\* a mutation of Product: the first pool varies fastest
RECURSIVE ProductFirstFastest(_)
ProductFirstFastest(pools) ==
    IF pools = <<>> THEN << <<>> >>
    ELSE LET rest == ProductFirstFastest(Tail(pools))
             pool == Head(pools)
         IN  Concat([i \in 1..Len(rest) |->
                        [j \in 1..Len(pool) |-> <<pool[j]>> \o rest[i]]])

\* itertools.product(*pools): result = [x + [y] for x in result for y in pool]
RECURSIVE Product(_)
Product(pools) ==
    IF pools = <<>> THEN << <<>> >>
    ELSE LET result == Product(SubSeq(pools, 1, Len(pools) - 1))
             pool == pools[Len(pools)]
         IN  Concat([i \in 1..Len(result) |->
                        [j \in 1..Len(pool) |-> Append(result[i], pool[j])]])

\* client.py:56-61
Requests(a) ==
    Product(<<NormDatasource(a.datasource), NormOptional(a.inittime, NoneInt),
              NormOptional(a.fh, NoneInt), NormOptional(a.varname, NoneStr),
              NormOptional(a.leadtime, NoneInt)>>)

\* how sel ends
Raised(e) == [status |-> "raised", err |-> e, form |-> "", kind |-> "", items |-> <<>>]
Returned(form, kind, items) ==
    [status |-> "returned", err |-> "", form |-> form, kind |-> kind, items |-> items]
NoReturn == [status |-> "", err |-> "", form |-> "", kind |-> "", items |-> <<>>]

Present(ds) == SelectSeq(ds, LAMBDA d : d # NoneResult)

\* client.py:74-90, the merge branch; datas is always a list
MergeDatas(ds) ==
    IF ds = <<>> THEN Raised("IndexError")
    ELSE IF ds[1].kind = "DataArray"
    THEN \* d.time of every d, then xr.merge(datas)
         IF \E i \in 1..Len(ds) : ds[i].kind \notin {"DataArray", "Dataset"}
         THEN Raised("AttributeError")
         ELSE Returned("merged", "Dataset", ds)
    ELSE IF ds[1].kind = "DataFrame"
    THEN \* pd.concat(datas) drops the None entries
         IF \E i \in 1..Len(ds) : ds[i].kind \notin {"DataFrame", "None"}
         THEN Raised("TypeError")
         ELSE Returned("merged", "DataFrame", Present(ds))
    ELSE Returned("list", "", ds)

\* a mutation of AllFailed: one absent result is enough
AnyFailed(ds) == \E i \in 1..Len(ds) : ds[i] = NoneResult

\* client.py:71, all([i is None for i in datas])
AllFailed(ds) == \A i \in 1..Len(ds) : ds[i] = NoneResult

\* a mutation of SelEnd: without merge the first result is returned alone,
\* however many requests there are
SelEndFirstOnly(ds, reqs, merge) ==
    IF AllFailed(ds) THEN Raised("all requests failed.")
    ELSE IF merge THEN MergeDatas(ds)
    ELSE IF ds = <<>> THEN Raised("IndexError")
    ELSE Returned("single", ds[1].kind, <<ds[1]>>)

\* client.py:71-92
SelEnd(ds, reqs, merge) ==
    IF AllFailed(ds) THEN Raised("all requests failed.")
    ELSE IF merge THEN MergeDatas(ds)
    ELSE IF Len(reqs) > 1 THEN Returned("list", "", ds)
    ELSE IF ds = <<>> THEN Raised("IndexError")
    ELSE Returned("single", ds[1].kind, <<ds[1]>>)

(***************************************************************************)
(* The inputs of the model.                                                *)
(***************************************************************************)
\* text constants, as sequences of characters
Name143 == <<"2","0","2","4","0","1","0","3","0","0","0","0","0","0",".","0","2","4">>
NameOther == <<"r","e","a","d","m","e">>
DateDigits == <<"2","0","2","4","0","1","0","2","0","8","0","0","0","0">>
HourDigits == <<"0","8","0","0","0","0">>

\* the values the dimensions of sel are drawn from; a list of n values is
\* the first n of the sequence, a scalar is its first value
DatasourceSamples == <<"ECMWF_HR", "GRAPES_GFS", "SURFACE">>
InittimeSamples == <<172800, 216000, 86400>>
FhSamples == <<24, 0, 48>>
VarnameSamples == <<"RH", "TMP", "WIND">>
LeadtimeSamples == <<178200, 259200, 345600>>

ListLens == 2..MaxList

DatasourceArgs ==
    {ArgScalar(DatasourceSamples[1])}
        \cup {ArgList(SubSeq(DatasourceSamples, 1, n), "") : n \in ListLens}
InittimeArgs ==
    {ArgNone(0), ArgScalar(InittimeSamples[1])}
        \cup {ArgList(SubSeq(InittimeSamples, 1, n), 0) : n \in ListLens}
FhArgs ==
    {ArgNone(0), ArgScalar(FhSamples[1])}
        \cup {ArgList(SubSeq(FhSamples, 1, n), 0) : n \in ListLens \cup {0}}
VarnameArgs ==
    {ArgScalar(VarnameSamples[1])}
        \cup {ArgList(SubSeq(VarnameSamples, 1, n), "") : n \in ListLens}
LeadtimeArgs ==
    {ArgNone(0), ArgScalar(LeadtimeSamples[1])}
        \cup {ArgList(SubSeq(LeadtimeSamples, 1, n), 0) : n \in ListLens}

\* the keyword arguments _sel pops: wildcard and level
KwArgs ==
    {[wildcard |-> NoneSeq, level |-> Some("850")],
     [wildcard |-> Some(Wildcard83), level |-> NoneStr]}

\* what the server may answer to a leaf
SelListings == {ListingOf({Name143}), ListingOf({NameOther})}
SelGuesses == {GuessFilenameWildcard(reply) : reply \in SelListings}
SelData ==
    {DataErr("FileNotFoundError"),
     DataOf(MdfsMagic \o <<4, 0>>, TRUE), DataOf(MdfsMagic \o <<4, 0>>, FALSE),
     DataOf(MdfsMagic \o <<11, 0>>, TRUE), DataOf(MdfsMagic \o <<1, 0>>, TRUE),
     DataOf(<<0, 0, 0, 0, 0, 0>>, TRUE)}

\* the names a directory listing is made of: an optional prefix, 8 or 14
\* digits, a separator, 0, 3, 4 or 6 digits, an optional suffix
SampleNames ==
    {pre \o SubSeq(DateDigits, 1, n1) \o <<sep>> \o SubSeq(HourDigits, 1, n2) \o suf :
        pre \in {<<>>, <<"x">>}, n1 \in {8, 14}, sep \in {".", "_"},
        n2 \in {0, 3, 4, 6}, suf \in {<<>>, <<"x">>}}

RECURSIVE SetsUpTo(_, _)
SetsUpTo(S, n) ==
    IF n = 0 THEN {{}}
    ELSE LET P == SetsUpTo(S, n - 1) IN P \cup {p \cup {x} : p \in P, x \in S}

WildcardListings ==
    {ListingErr("IOError")} \cup {ListingOf(ns) : ns \in SetsUpTo(SampleNames, MaxListing)}

FormatTimes == {172800, 259260}
FormatFhPairs == {<<0, 24>>, <<24, 120>>, <<-6, 6>>}

\* the buffers classified: a head followed by up to MaxTail bytes
GuessFilenames ==
    {<<"2","4","0","1","0","3","0","0",".","0","2","4">>, <<"c",".","a","w","x">>,
     <<"r",".","L","A","T","L","O","N">>}
GuessHeads ==
    {MdfsMagic \o <<4, 0>>, MdfsMagic \o <<11, 0>>, MdfsMagic \o <<1, 0>>, MdfsMagic,
     DiamondWord \o <<32, 52, 32>>,                   \* 'diamond 4 '
     <<68, 73, 65, 77, 79, 78, 68, 10, 49, 52>>,      \* 'DIAMOND\n14'
     DiamondWord \o <<32, 57, 32>>,                   \* 'diamond 9 '
     <<100, 105, 97, 32, 52, 32>>,                    \* 'dia 4 '
     <<100, 105, 97>>}                                \* 'dia'
TailBytes == {32, 52, 255}
Tails == UNION {[1..n -> TailBytes] : n \in 0..MaxTail}

(***************************************************************************)
(* The state machines.                                                     *)
(***************************************************************************)
NoArgs ==
    [datasource |-> ArgNone(""), inittime |-> ArgNone(0), fh |-> ArgNone(0),
     varname |-> ArgNone(""), leadtime |-> ArgNone(0), merge |-> FALSE,
     kw |-> [wildcard |-> NoneSeq, level |-> NoneStr]]

Init ==
    /\ pc = "idle" /\ args = NoArgs /\ requests = <<>> /\ datas = <<>>
    /\ last = NoLeaf /\ logged = 0 /\ ret = NoReturn
    /\ wpc = "idle" /\ wListing = ListingOf({}) /\ wResult = WildcardErr("")
    /\ wTime = [inittime |-> 0, fh1 |-> 0, fh2 |-> 0, name1 |-> <<>>, name2 |-> <<>>]
    /\ gpc = "idle"
    /\ gInput = [filename |-> <<>>, contents |-> <<>>, other |-> <<>>]
    /\ gResult = [a |-> ClassErr(""), b |-> ClassErr("")]
    /\ tpc = "idle" /\ tInput = <<>> /\ tResult = <<>>
    /\ d5pc = "idle" /\ d5Input = <<>> /\ d5Result = <<>>
    /\ d7pc = "idle" /\ d7Input = <<>> /\ d7Result = <<>>
    /\ d14pc = "idle" /\ d14Input = <<>> /\ d14Result = <<>>
    /\ lpc = "idle" /\ lInput = <<>> /\ lResult = <<>>
    /\ mpc = "idle" /\ mInput = <<>> /\ mResult = <<>>
    /\ spc = "idle" /\ sInput = <<>> /\ sResult = <<>>
    /\ qpc = "idle" /\ qInput = <<>> /\ qResult = <<>>
    /\ hpc = "idle" /\ hInput = <<>> /\ hResult = <<>>
    /\ kpc = "idle" /\ kInput = <<>> /\ kResult = <<>>
    /\ fpc = "idle" /\ fInput = <<>> /\ fResult = <<>>
    /\ apc = "idle" /\ aInput = <<>> /\ aResult = <<>>

\* sel is called: client.py:56-61
SelCall ==
    /\ pc = "idle"
    /\ \E ds \in DatasourceArgs, it \in InittimeArgs, fh \in FhArgs, vn \in VarnameArgs,
          lt \in LeadtimeArgs, m \in BOOLEAN, kw \in KwArgs :
          LET a == [datasource |-> ds, inittime |-> it, fh |-> fh, varname |-> vn,
                    leadtime |-> lt, merge |-> m, kw |-> kw]
          IN  /\ Len(Requests(a)) <= MaxLeaves
              /\ args' = a
              /\ requests' = Requests(a)
    /\ datas' = <<>>
    /\ pc' = "fetch"
    /\ UNCHANGED <<last, logged, ret, wildVars, guessVars, decoderVars, laterVars>>

\* map(fetch, requests) runs the next leaf: client.py:63-70
SelFetch ==
    /\ pc = "fetch"
    /\ Len(datas) < Len(requests)
    /\ \E guessed \in SelGuesses, dreply \in SelData :
          LET run == SelLeaf(requests[Len(datas) + 1], args.kw, guessed, dreply)
          IN  /\ last' = run
              /\ IF run.err # "" /\ ~Catches(run.err)
                 THEN /\ pc' = "done" /\ ret' = Raised(run.err)
                      /\ UNCHANGED <<datas, logged>>
                 ELSE /\ datas' = Append(datas, IF run.err # "" THEN NoneResult ELSE run.val)
                      /\ logged' = IF run.err # "" THEN logged + 1 ELSE logged
                      /\ UNCHANGED <<pc, ret>>
    /\ UNCHANGED <<args, requests, wildVars, guessVars, decoderVars, laterVars>>

\* every leaf has run: client.py:71-92
SelFinish ==
    /\ pc = "fetch"
    /\ Len(datas) = Len(requests)
    /\ ret' = SelEnd(datas, requests, args.merge)
    /\ pc' = "done"
    /\ UNCHANGED <<args, requests, datas, last, logged, wildVars, guessVars, decoderVars, laterVars>>

SelNext == SelCall \/ SelFetch \/ SelFinish
SelSpec == Init /\ [][SelNext]_vars

\* guess_filename_wildcard(directory): client.py:179-199
WildcardGuess ==
    /\ wpc = "idle"
    /\ \E reply \in WildcardListings :
          /\ wListing' = reply
          /\ wResult' = GuessFilenameWildcard(reply)
    /\ wpc' = "guessed"
    /\ UNCHANGED <<wTime, selVars, guessVars, decoderVars, laterVars>>

\* the template is formatted for two forecast hours: client.py:130
WildcardFormat ==
    /\ wpc = "guessed"
    /\ wResult.ok
    /\ \E t \in FormatTimes, fhs \in FormatFhPairs :
          wTime' = [inittime |-> t, fh1 |-> fhs[1], fh2 |-> fhs[2],
                    name1 |-> FormatTemplate(wResult.wildcard, t, fhs[1]),
                    name2 |-> FormatTemplate(wResult.wildcard, t, fhs[2])]
    /\ wpc' = "formatted"
    /\ UNCHANGED <<wListing, wResult, selVars, guessVars, decoderVars, laterVars>>

WildcardNext == WildcardGuess \/ WildcardFormat
WildcardSpec == Init /\ [][WildcardNext]_vars

\* guess_interface_class on a buffer and on another buffer with the same head
GuessClassify ==
    /\ gpc = "idle"
    /\ \E f \in GuessFilenames, h \in GuessHeads, t1 \in Tails, t2 \in Tails :
          /\ gInput' = [filename |-> f, contents |-> h \o t1, other |-> h \o t2]
          /\ gResult' = [a |-> GuessInterfaceClass(f, h \o t1),
                         b |-> GuessInterfaceClass(f, h \o t2)]
    /\ gpc' = "done"
    /\ UNCHANGED <<selVars, wildVars, decoderVars, laterVars>>

GuessNext == GuessClassify
GuessSpec == Init /\ [][GuessNext]_vars

(***************************************************************************)
(* Claims about MdfsClient.sel, checked under SelSpec.                     *)
(***************************************************************************)
\* a dimension as the claims read it: a list as it is, a scalar as a list of
\* one value, an absent dimension as a list holding None
DimOf(a, none) ==
    IF a.tag = "list" THEN [i \in 1..Len(a.items) |-> Some(a.items[i])]
    ELSE IF a.tag = "none" THEN <<none>> ELSE <<Some(a.val)>>

DimDatasource == IF args.datasource.tag = "list" THEN args.datasource.items
                 ELSE <<args.datasource.val>>
DimInittime == DimOf(args.inittime, NoneInt)
DimFh == DimOf(args.fh, NoneInt)
DimVarname == DimOf(args.varname, NoneStr)
DimLeadtime == DimOf(args.leadtime, NoneInt)

\* the position of the leaf (a, b, c, d, e) when datasource varies slowest
\* and leadtime fastest
LeafIndex(a, b, c, d, e) ==
    1 + ((((a - 1) * Len(DimInittime) + (b - 1)) * Len(DimFh) + (c - 1))
            * Len(DimVarname) + (d - 1)) * Len(DimLeadtime) + (e - 1)

\* the templates a leaf of the current call can format its filename with
LeafTemplates ==
    IF args.kw.wildcard.some THEN {args.kw.wildcard.v}
    ELSE {g.wildcard : g \in {h \in SelGuesses : h.ok}}

\* the forecast hour and the init time the claims give a leaf
ClaimedFh(req) ==
    IF req[3].some THEN req[3].v
    ELSE IF req[2].some /\ req[5].some
         THEN LET d == req[5].v - req[2].v
              IN  CHOOSE q \in -800..800 :
                     IF d >= 0 THEN q >= 0 /\ q * 3600 <= d /\ d < (q + 1) * 3600
                     ELSE q <= 0 /\ (q - 1) * 3600 < d /\ d <= q * 3600
         ELSE 0
ClaimedInittime(req) ==
    IF req[2].some THEN req[2].v ELSE req[5].v - 3600 * ClaimedFh(req)

\* the artifacts the leaf req may give
IsResultOf(d, req) ==
    /\ d.dir = Directory(req[1], req[4], args.kw.level)
    /\ \E tpl \in LeafTemplates :
          d.file = FormatTemplate(tpl, ClaimedInittime(req), ClaimedFh(req))

\* C1: sel makes exactly one leaf request per element of the product
\* datasource x inittime x fh x varname x leadtime, in the product's order
\* (datasource slowest, leadtime fastest), and the result list has one entry
\* per leaf in that order: entry i is absent or is the artifact of leaf i.
C1_ProductOrder ==
    pc # "idle" =>
        /\ Len(requests) = Len(DimDatasource) * Len(DimInittime) * Len(DimFh)
                              * Len(DimVarname) * Len(DimLeadtime)
        /\ \A a \in 1..Len(DimDatasource), b \in 1..Len(DimInittime), c \in 1..Len(DimFh),
              d \in 1..Len(DimVarname), e \in 1..Len(DimLeadtime) :
              requests[LeafIndex(a, b, c, d, e)] =
                  <<DimDatasource[a], DimInittime[b], DimFh[c], DimVarname[d], DimLeadtime[e]>>
        /\ Len(datas) <= Len(requests)
        /\ \A i \in 1..Len(datas) :
              datas[i] = NoneResult \/ IsResultOf(datas[i], requests[i])
        /\ (pc = "done" /\ ~args.merge /\ ret.status = "returned" /\ Len(requests) > 1)
              => (ret.items = datas /\ Len(ret.items) = Len(requests))

\* a 2 x 2 product returned as a list: one leaf absent, the leaves of the
\* two values of each list dimension giving different artifacts
C1_Witness ==
    /\ pc = "done" /\ ~args.merge /\ ret.status = "returned"
    /\ Len(ret.items) = 4
    /\ ret.items[1] = NoneResult
    /\ ret.items[2] # NoneResult /\ ret.items[3] # NoneResult /\ ret.items[4] # NoneResult
    /\ ret.items[2].file # ret.items[3].file
    /\ ret.items[3].file # ret.items[4].file

\* C2: a leaf that raises is recorded as None at its own position, and every
\* other leaf is still executed and its result kept at its own position:
\* each leaf appends exactly one entry and changes no earlier entry, the
\* entry is None exactly when the leaf raised, and sel only ends once every
\* leaf has run.
C2_LeafStep ==
    (pc = "fetch" /\ Len(datas) < Len(requests)) =>
        /\ pc' \in {"fetch", "done"}
        /\ pc' = "fetch" =>
              /\ Len(datas') = Len(datas) + 1
              /\ SubSeq(datas', 1, Len(datas)) = datas
              /\ last'.err # "" => datas'[Len(datas')] = NoneResult
              /\ last'.err = "" =>
                    (datas'[Len(datas')] = last'.val /\ last'.val # NoneResult)
        /\ pc' = "done" => UNCHANGED <<datas, last>>

C2_LeafFailureIsolated ==
    /\ [](pc = "done" => Len(datas) = Len(requests))
    /\ [][C2_LeafStep]_vars

\* a leaf in the middle failed to find its file, after and before leaves
\* that succeeded
C2_Witness ==
    /\ pc = "fetch" /\ Len(requests) = 4 /\ Len(datas) = 3
    /\ datas[1] # NoneResult /\ datas[2] = NoneResult /\ datas[3] # NoneResult
    /\ last.err = ""

C4_MergePresent ==
    (/\ pc = "done" /\ args.merge
     /\ 0 < logged /\ logged < Len(requests)
     /\ \/ \A i \in 1..Len(datas) : datas[i].kind \in {"None", "DataArray"}
        \/ \A i \in 1..Len(datas) : datas[i].kind \in {"None", "DataFrame"})
        => /\ ret.status = "returned"
           /\ ret.form = "merged"
           /\ ret.items = Present(datas)

\* C5 (the claim as stated): a leaf that fails in the filename-pattern
\* inference or in the format dispatch ends sel with that error; it is never
\* turned into an absent result.
C5_PatternAndDispatchSurface ==
    (last.stage \in {"wildcard", "dispatch"}) =>
        (pc = "done" /\ ret.status = "raised" /\ ret.err = last.err)

\* C6: for the leaf that built a filename, the forecast hour is the explicit
\* fh, else the whole hours of leadtime - inittime when both are given, else
\* 0; the init time is the given one, else leadtime minus that forecast hour;
\* and the filename is the template formatted with these two.
C6_ForecastHour ==
    (Len(datas) >= 1 /\ last.stage \notin {"", "assert"}) =>
        LET req == requests[Len(datas)]
        IN  /\ last.fh = ClaimedFh(req)
            /\ last.inittime = ClaimedInittime(req)
            /\ last.stage # "wildcard" =>
                  \E tpl \in LeafTemplates :
                      last.file = FormatTemplate(tpl, ClaimedInittime(req), ClaimedFh(req))

\* leadtime 10.5 hours before inittime, no fh: the forecast hour is -10
C6_Witness ==
    /\ Len(datas) >= 1 /\ last.stage = "done"
    /\ ~requests[Len(datas)][3].some
    /\ requests[Len(datas)][2].some /\ requests[Len(datas)][5].some
    /\ requests[Len(datas)][5].v - requests[Len(datas)][2].v = -37800
    /\ last.fh = -10


(***************************************************************************)
(* Claims about guess_filename_wildcard, checked under WildcardSpec.       *)
(***************************************************************************)
\* the lexicographically greatest name of a listing
Greatest(names) == CHOOSE n \in names : \A m \in names : ~StrLess(n, m)

\* the first of the five shapes, in the order the claim lists them, that the
\* name matches; 0 when it matches none
FirstShape(s) ==
    IF ShapeMatches(1, s) THEN 1
    ELSE IF ShapeMatches(2, s) THEN 2
    ELSE IF ShapeMatches(3, s) THEN 3
    ELSE IF ShapeMatches(4, s) THEN 4
    ELSE IF ShapeMatches(5, s) THEN 5
    ELSE 0

HasField(tpl, f) == \E i \in 1..Len(tpl) : tpl[i].field = f

\* C7: on a listing that is answered and not empty, the template returned is
\* that of the first shape, in the order 14.3, 8.3, 8[._]6, 8[._]4, 14, that
\* the lexicographically greatest name matches, also when a later shape
\* matches too; NotImplementedError is raised when it matches none.
C7_FirstShapeWins ==
    (wpc # "idle" /\ wListing.err = "" /\ wListing.names # {}) =>
        LET latest == Greatest(wListing.names)
            k == FirstShape(latest)
        IN  IF k = 0
            THEN ~wResult.ok /\ wResult.err = "NotImplementedError"
            ELSE wResult.ok /\ wResult.wildcard = ShapeWildcard(k, latest)

\* the greatest of two names has 14 digits, '_' and 4 digits: it matches the
\* 8[._]4 shape and the bare 14-digit shape, and the 8[._]4 template is given
C7_Witness ==
    /\ wpc = "guessed" /\ wListing.err = ""
    /\ Cardinality(wListing.names) = 2
    /\ LET latest == Greatest(wListing.names)
       IN  /\ FirstShape(latest) = 4
           /\ ShapeMatches(5, latest)
           /\ wResult.ok
           /\ HasField(wResult.wildcard, "inittime")
           /\ wResult.wildcard # ShapeWildcard(5, latest)

\* C8 (the claim as stated): every template returned holds an init-time
\* placeholder and the forecast-hour placeholder, so one init time and two
\* different forecast hours give two different filenames.
C8_BothPlaceholders ==
    (wpc = "formatted") =>
        /\ HasField(wResult.wildcard, "inittime")
        /\ HasField(wResult.wildcard, "fh")
        /\ wTime.fh1 # wTime.fh2 => wTime.name1 # wTime.name2

\* C8 (as the code has it): every template returned holds an init-time
\* placeholder with an explicit strftime pattern. The templates of the shapes
\* 14.3 and 8.3 also hold the zero-padded forecast-hour placeholder, and two
\* different forecast hours give two different filenames. The templates of
\* the shapes 8[._]6, 8[._]4 and 14 hold no forecast-hour placeholder, and
\* the filename is the same for every forecast hour.
C8_PlaceholdersByShape ==
    (wpc = "formatted") =>
        LET k == FirstShape(Greatest(wListing.names))
            tpl == wResult.wildcard
        IN  /\ \E i \in 1..Len(tpl) : tpl[i].field = "inittime" /\ tpl[i].spec # <<>>
            /\ \A i \in 1..Len(tpl) : tpl[i].field = "fh" => tpl[i].spec = <<"0", "3", "d">>
            /\ k \in {1, 2} =>
                  /\ HasField(tpl, "fh")
                  /\ wTime.fh1 # wTime.fh2 => wTime.name1 # wTime.name2
                  /\ Len(wTime.name1) >= 4
                  /\ SubSeq(wTime.name1, Len(wTime.name1) - 2, Len(wTime.name1))
                        = Format03d(wTime.fh1)
            /\ k \in {3, 4, 5} =>
                  /\ ~HasField(tpl, "fh")
                  /\ wTime.name1 = wTime.name2

\* the 8.3 template formatted for the forecast hours 24 and 120
C8_Witness ==
    /\ wpc = "formatted"
    /\ FirstShape(Greatest(wListing.names)) = 2
    /\ wTime.fh1 = 24 /\ wTime.fh2 = 120
    /\ wTime.name1 # wTime.name2
    /\ Len(wTime.name1) = 12

(***************************************************************************)
(* Claims about guess_interface_class, checked under GuessSpec.            *)
(***************************************************************************)
\* the whitespace-separated tokens of a buffer read as text, byte by byte
AsciiSpace(b) == (b >= 9 /\ b <= 13) \/ b = 32

RECURSIVE ByteTokensFrom(_, _)
ByteTokensFrom(bs, cur) ==
    IF bs = <<>> THEN (IF cur = <<>> THEN <<>> ELSE <<cur>>)
    ELSE IF AsciiSpace(bs[1])
         THEN (IF cur = <<>> THEN <<>> ELSE <<cur>>) \o ByteTokensFrom(Tail(bs), <<>>)
         ELSE ByteTokensFrom(Tail(bs), Append(cur, bs[1]))

ByteTokens(bs) == ByteTokensFrom(bs, <<>>)

\* the decoder the claim gives an input, "unsupported" for a failure
ClaimedClass(filename, contents) ==
    LET tokens == ByteTokens(contents)
    IN  IF EndsWith(Upper(filename), <<"A", "W", "X">>) THEN <<"Awx", 0>>
        ELSE IF EndsWith(Upper(filename), <<"L", "A", "T", "L", "O", "N">>)
             THEN <<"LatLon", 0>>
        ELSE IF Len(contents) < 6 THEN <<"unsupported", 0>>
        ELSE IF SubSeq(contents, 1, 4) = <<109, 100, 102, 115>>
             THEN IF Int16(contents[5], contents[6]) \in {4, 11}
                  THEN <<"MdfsGridData", 0>> ELSE <<"MdfsStationData", 0>>
        ELSE IF /\ Len(tokens) >= 2
                /\ LowerCps(tokens[1]) = <<100, 105, 97, 109, 111, 110, 100>>
                /\ \E n \in DiamondModules : NatCps(n) = tokens[2]
             THEN <<"Diamond", CHOOSE n \in DiamondModules : NatCps(n) = tokens[2]>>
        ELSE <<"unsupported", 0>>

\* what a classification came to: the decoder, or a failure of whatever kind
Outcome(r) ==
    IF ~r.ok THEN <<"unsupported", 0>>
    ELSE IF r.cls = "Diamond" THEN <<"Diamond", r.subtype>>
    ELSE <<r.cls, 0>>

\* C9 (the claim as stated): the decoder is chosen by the filename extension,
\* else by the 'mdfs' magic and the type code, else by the first two
\* whitespace-separated tokens 'diamond' N of the buffer; every other input
\* fails.
C9_StrictOrder ==
    (gpc = "done") => Outcome(gResult.a) = ClaimedClass(gInput.filename, gInput.contents)

AgreeOnPrefix(a, b, n) == SubSeq(a, 1, Min(n, Len(a))) = SubSeq(b, 1, Min(n, Len(b)))

\* C10 (the claim as stated): two buffers that agree on their first PrefixLen
\* bytes are classified identically under the same filename: the same
\* decoder, or the same failure.
C10_PrefixOnly ==
    (gpc = "done" /\ AgreeOnPrefix(gInput.contents, gInput.other, PrefixLen))
        => gResult.a = gResult.b


(***************************************************************************)
(* The text decoders with a fixed header: diamond/diamond1.py and its      *)
(* siblings, diamond/diamond4.py.                                          *)
(***************************************************************************)
MaxBody == 30
MaxRec == 3
MaxSize == 2

\* a token of str.split(): an integer literal, a literal with a decimal
\* point, or any other word
IntTok(n) == [k |-> "int", v |-> n]
FloatTok(n) == [k |-> "float", v |-> n]
WordTok == [k |-> "str", v |-> 0]

\* the field types of the head dataclass of each format, in declared order
S3 == <<"str", "int", "str">>
Diamond1Head == S3 \o <<"int", "int", "int", "int", "int">>
Diamond2Head == S3 \o <<"int", "int", "int", "int", "int", "int">>
Diamond4Head ==
    S3 \o <<"int", "int", "int", "int", "int", "float", "float", "float", "float", "float",
            "float", "float", "int", "int", "float", "float", "float", "float", "float">>
Diamond5Head == S3 \o <<"int", "int", "int", "int", "int">>
Diamond8Head == S3 \o <<"int", "int", "int", "int", "int", "int">>
Diamond16Head == S3 \o <<"int">>
Diamond41Head == S3 \o <<"int", "int", "int", "int", "int">>
Diamond42Head == S3 \o <<"int", "int", "int", "int", "int", "int", "int">>

HeadTypes(f) ==
    CASE f = 1 -> Diamond1Head
      [] f = 2 -> Diamond2Head
      [] f = 4 -> Diamond4Head
      [] f = 5 -> Diamond5Head
      [] f = 8 -> Diamond8Head
      [] f = 16 -> Diamond16Head
      [] f = 41 -> Diamond41Head
      [] f = 42 -> Diamond42Head

\* the defaults of the trailing fields: diamond4.py:37-38, smooth = 1 and
\* boldvalue = 0; no other head declares a default
HeadDefaults(f) == IF f = 4 THEN <<IntTok(1), IntTok(0)>> ELSE <<>>

\* field.type(value) of _cast_fields_types
CastOk(type, tok) ==
    CASE type = "str" -> TRUE
      [] type = "int" -> tok.k = "int"
      [] type = "float" -> tok.k \in {"int", "float"}

NoHead == [ok |-> FALSE, err |-> "", fields |-> <<>>, defaulted |-> 0]

\* DiamondNHead(*data[:headsize]): the fields, and how many of them were
\* left to their defaults
ReadHead(f, data) ==
    LET headsize == Len(HeadTypes(f))
        given == SubSeq(data, 1, Min(headsize, Len(data)))
        defaults == HeadDefaults(f)
        missing == headsize - Len(given)
    IN  IF missing > Len(defaults)
        THEN [NoHead EXCEPT !.err = "TypeError"]
        ELSE LET filled == given \o SubSeq(defaults, Len(defaults) - missing + 1, Len(defaults))
             IN  IF \E i \in 1..headsize : ~CastOk(HeadTypes(f)[i], filled[i])
                 THEN [NoHead EXCEPT !.err = "ValueError"]
                 ELSE [ok |-> TRUE, err |-> "", fields |-> filled, defaulted |-> missing]

\* the numbers of columns the dtype of each flat-matrix format has
\* (unstructured_to_structured wants the last axis to have that length)
Widths(f) ==
    CASE f = 1 -> {24, 26}
      [] f = 2 -> {10}
      [] f = 8 -> {9, 12}
      [] f = 16 -> {4}
      [] f = 41 -> {15}
      [] f = 42 -> {11}

\* how a read ended: raised, or returned with head and data on the object
ReadRaised(e, h, r, c) ==
    [ok |-> FALSE, err |-> e, head |-> h, rows |-> r, cols |-> c]
ReadDone(h, r, c) == [ok |-> TRUE, err |-> "", head |-> h, rows |-> r, cols |-> c]
NoRead == ReadRaised("", NoHead, 0, 0)

\* to_frame() of a flat-matrix format on a rows x cols body
ToFrame(f, head, rows, cols) ==
    IF cols = 0 THEN ReadRaised("NotImplementedError", head, rows, cols)
    ELSE IF cols \notin Widths(f) THEN ReadRaised("ValueError", head, rows, cols)
    ELSE ReadDone(head, rows, cols)

\* read of Diamond 1, 2, 8, 16, 41, 42 (diamond1.py:136-142): data holds the
\* tokens of the file
FlatRead(f, data) ==
    LET headsize == Len(HeadTypes(f))
        head == ReadHead(f, data)
        nrec == head.fields[headsize].v
        T == Len(data) - headsize
    IN  IF ~head.ok THEN ReadRaised(head.err, NoHead, 0, 0)
        ELSE IF nrec = 0 THEN ReadRaised("ZeroDivisionError", head, 0, 0)
        ELSE IF nrec < 0
             THEN ReadRaised(IF T % (-nrec) # 0 THEN "Exception" ELSE "ValueError", head, 0, 0)
        ELSE IF T % nrec # 0 THEN ReadRaised("Exception", head, 0, 0)
        ELSE ToFrame(f, head, nrec, T \div nrec)

\* read of Diamond 4 (diamond4.py:117-120)
Diamond4Read(data) ==
    LET headsize == Len(Diamond4Head)
        head == ReadHead(4, data)
        xsize == head.fields[16].v
        ysize == head.fields[17].v
        body == Len(data) - Min(headsize, Len(data))
    IN  IF ~head.ok THEN ReadRaised(head.err, NoHead, 0, 0)
        ELSE IF xsize < 0 \/ ysize < 0 \/ body # ysize * xsize
             THEN ReadRaised("ValueError", head, 0, 0)
        ELSE ReadDone(head, ysize, xsize)

\* the files read: a head, complete or cut short, and a body of numbers
FlatFormats == {1, 2, 8, 16, 41, 42}

SampleHead(f, lastTok) ==
    LET n == Len(HeadTypes(f))
    IN  [i \in 1..n |->
            IF i = n THEN lastTok
            ELSE IF HeadTypes(f)[i] = "str" THEN WordTok
            ELSE IF i = 2 THEN IntTok(f)
            ELSE IF HeadTypes(f)[i] = "float" THEN FloatTok(i)
            ELSE IntTok(i)]

Body(n) == [i \in 1..n |-> IntTok(i)]

FlatFiles ==
    {[format |-> f, data |-> SampleHead(f, IntTok(r)) \o Body(t)] :
        f \in FlatFormats, r \in 0..MaxRec, t \in 0..MaxBody}
      \cup {[format |-> f, data |-> SubSeq(SampleHead(f, IntTok(1)), 1, n)] :
               f \in FlatFormats, n \in 0..3}
      \cup {[format |-> f, data |-> SampleHead(f, WordTok) \o Body(1)] : f \in FlatFormats}

\* a Diamond 4 head of n tokens for a grid of xsize x ysize
Diamond4Sample(n, xsize, ysize) ==
    SubSeq([SampleHead(4, IntTok(0)) EXCEPT ![16] = IntTok(xsize), ![17] = IntTok(ysize)],
           1, n)

Diamond4Files ==
    {[format |-> 4, data |-> Diamond4Sample(n, x, y) \o Body(t)] :
        n \in {22}, x \in 0..MaxSize, y \in 0..MaxSize, t \in 0..(MaxSize * MaxSize)}
      \cup {[format |-> 4, data |-> Diamond4Sample(n, x, y)] :
               n \in 16..21, x \in 0..MaxSize, y \in 0..MaxSize}

\* read of a flat-matrix format
TextFlatRead ==
    /\ tpc = "idle"
    /\ \E file \in FlatFiles :
          /\ tInput' = file
          /\ tResult' = FlatRead(file.format, file.data)
    /\ tpc' = "done"
    /\ UNCHANGED <<clientVars, laterVars, d5Vars, d7Vars, d14Vars, latlonVars, gridVars, stationVars>>

\* read of Diamond 4
TextGridRead ==
    /\ tpc = "idle"
    /\ \E file \in Diamond4Files :
          /\ tInput' = file
          /\ tResult' = Diamond4Read(file.data)
    /\ tpc' = "done"
    /\ UNCHANGED <<clientVars, laterVars, d5Vars, d7Vars, d14Vars, latlonVars, gridVars, stationVars>>

TextNext == TextFlatRead \/ TextGridRead
TextSpec == Init /\ [][TextNext]_vars

\* the R and the T of a file whose head is complete
HeaderRec == tInput.data[Len(HeadTypes(tInput.format))].v
BodyTokens == Len(tInput.data) - Len(HeadTypes(tInput.format))

\* C11 (the claim as stated): for a flat-matrix format with nrec = R > 0 and
\* T body tokens, read fails exactly when T mod R is not 0, and otherwise
\* succeeds with a body of R rows and T / R columns.
C11_FailsIffNotDivisible ==
    (/\ tpc = "done" /\ tInput.format \in FlatFormats
     /\ BodyTokens >= 0
     /\ tInput.data[Len(HeadTypes(tInput.format))].k = "int"
     /\ HeaderRec > 0)
        => /\ ~tResult.ok <=> (BodyTokens % HeaderRec # 0)
           /\ tResult.ok => (tResult.rows = HeaderRec /\ tResult.cols * HeaderRec = BodyTokens)

\* C12 (the claim as stated): read fails when the input holds fewer tokens
\* than the head has fields, and no field of a head is filled from a default.
C12_HeaderArity ==
    (tpc = "done") =>
        /\ Len(tInput.data) < Len(HeadTypes(tInput.format)) => ~tResult.ok
        /\ tResult.head.defaulted = 0


(***************************************************************************)
(* Diamond5.read (diamond/diamond5.py:153-171).                            *)
(***************************************************************************)
MaxTracks == 2
MaxCut == 8

\* data[a:b] of a Python list
SliceBound(x, n) == IF x < 0 THEN (IF x + n < 0 THEN 0 ELSE x + n) ELSE Min(x, n)
PySlice(data, a, b) == SubSeq(data, SliceBound(a, Len(data)) + 1, SliceBound(b, Len(data)))

\* len(self.dtype): the six values of one level
LevelWidth == 6
\* len(self.dtype_index): stid, lon, lat, height, nrec
IndexWidth == 5

D5Raised(e, indices, records) ==
    [ok |-> FALSE, err |-> e, stored |-> FALSE, indices |-> indices, records |-> records]

\* lines 168-171: the index is built, index and data are stored on the
\* object, and to_frame pairs nrec // 6 index rows per track with the rows of
\* the records
D5Finish(indices, records) ==
    LET declared == [i \in 1..Len(indices) |-> indices[i][IndexWidth].v \div LevelWidth]
        rows == [i \in 1..Len(records) |-> Len(records[i]) \div LevelWidth]
        Sum[i \in 0..Len(indices)] ==
            IF i = 0 THEN 0 ELSE Sum[i - 1] + declared[i] - rows[i]
    IN  IF indices = <<>> THEN D5Raised("NotImplementedError", indices, records)
        ELSE IF \E i \in 1..Len(indices) : Len(indices[i]) # IndexWidth
             THEN D5Raised("ValueError", indices, records)
        ELSE IF Sum[Len(indices)] # 0
             THEN [D5Raised("ValueError", indices, records) EXCEPT !.stored = TRUE]
        ELSE [ok |-> TRUE, err |-> "", stored |-> TRUE, indices |-> indices,
              records |-> records]

\* the while loop of lines 156-167, from position p with irec tracks read
RECURSIVE D5Loop(_, _, _, _, _, _)
D5Loop(data, nrec, irec, p, indices, records) ==
    IF irec >= nrec THEN D5Finish(indices, records)
    ELSE LET rec_head == PySlice(data, p, p + 5)
             nrec_irec == rec_head[Len(rec_head)].v
             record == PySlice(data, p + 5, p + 5 + nrec_irec)
         IN  IF rec_head = <<>> THEN D5Raised("IndexError", indices, records)
             ELSE IF rec_head[Len(rec_head)].k # "int"
                  THEN D5Raised("ValueError", indices, records)
             ELSE IF Len(record) % LevelWidth # 0
                  THEN D5Raised("ValueError", Append(indices, rec_head), records)
             ELSE D5Loop(data, nrec, irec + 1, p + 5 + nrec_irec,
                         Append(indices, rec_head), Append(records, record))

Diamond5Read(data) ==
    LET head == ReadHead(5, data)
    IN  IF ~head.ok THEN D5Raised(head.err, <<>>, <<>>)
        ELSE D5Loop(data, head.fields[Len(Diamond5Head)].v, 0, Len(Diamond5Head), <<>>, <<>>)

\* the files read: tracks that declare 0, 6, 8 or 12 values and hold them,
\* with the last tokens of the file cut off
TrackCounts == {0, 6, 8, 12}
TrackTokens(count) ==
    <<IntTok(54511), FloatTok(116), FloatTok(39), IntTok(31), IntTok(count)>> \o Body(count)
Diamond5Files ==
    {LET whole == SampleHead(5, IntTok(Len(counts)))
                     \o Concat([i \in 1..Len(counts) |-> TrackTokens(counts[i])])
     IN  SubSeq(whole, 1, Len(whole) - cut) :
        counts \in UNION {[1..n -> TrackCounts] : n \in 1..MaxTracks}, cut \in 0..MaxCut}

D5Read ==
    /\ d5pc = "idle"
    /\ \E data \in Diamond5Files :
          /\ d5Input' = data
          /\ d5Result' = Diamond5Read(data)
    /\ d5pc' = "done"
    /\ UNCHANGED <<clientVars, laterVars, textVars, d7Vars, d14Vars, latlonVars, gridVars, stationVars>>

D5Next == D5Read
D5Spec == Init /\ [][D5Next]_vars

\* C13 (the claim as stated): every track read is its 5-token index record
\* followed by exactly the number of values the index declares, the index
\* records following one another without a gap; a declared count that runs
\* past the end of the input makes read fail, and no shortened record is kept.
C13_TracksExact ==
    (d5pc = "done") =>
        LET res == d5Result
            Start[i \in 1..(Len(res.indices) + 1)] ==
                IF i = 1 THEN Len(Diamond5Head)
                ELSE Start[i - 1] + 5 + res.indices[i - 1][Len(res.indices[i - 1])].v
        IN  /\ res.stored => \A i \in 1..Len(res.records) :
                  /\ Len(res.indices[i]) = 5
                  /\ res.indices[i] = SubSeq(d5Input, Start[i] + 1, Start[i] + 5)
                  /\ Len(res.records[i]) = res.indices[i][5].v
                  /\ res.records[i] = SubSeq(d5Input, Start[i] + 6, Start[i + 1])
            /\ res.ok => Len(res.records) = d5Input[Len(Diamond5Head)].v
            /\ (\E i \in 1..Len(res.indices) : Start[i + 1] > Len(d5Input)) => ~res.ok


(***************************************************************************)
(* Diamond7.read and Diamond7.write (diamond/diamond7.py:125-191).         *)
(* A file is a sequence of lines, a line the sequence of its tokens; a     *)
(* number with decimals is held in thousandths.                            *)
(***************************************************************************)
MaxRows == 2

NameTok(i) == [k |-> "str", v |-> i]
Terminator == <<IntTok(0)>>                \* row.split() == ['0']

\* the columns of a data row: 'i2', 'i1', 'i1', 'i1', 'i2' and eight 'f4'
Diamond7Columns ==
    <<"int", "int", "int", "int", "int", "float", "float", "float", "float", "float",
      "float", "float", "float">>
\* the decimals each column is written with: '%4i %02i %02i %02i %03i %6.1f
\* %5.1f %4.0f %3.0f %5.0f %5.0f %5.0f %5.0f'
Diamond7Decimals == <<0, 0, 0, 0, 0, 1, 1, 0, 0, 0, 0, 0, 0>>
\* dtype_index: name, sn, center, nrec
Diamond7IndexTypes == <<"str", "str", "str", "int">>

D7Object(h, idx, dat) == [decoded |-> TRUE, head |-> h, index |-> idx, data |-> dat]
\* head set, index and data left None
D7Empty(h) == [decoded |-> FALSE, head |-> h, index |-> <<>>, data |-> <<>>]
D7Raised(e) == [ok |-> FALSE, err |-> e, obj |-> D7Empty(<<>>)]
D7Returned(o) == [ok |-> TRUE, err |-> "", obj |-> o]

\* lines 153-160: the groups of rows closed by a terminator line; the rows
\* after the last terminator are dropped with del track
RECURSIVE D7Tracks(_, _, _)
D7Tracks(rows, track, tracks) ==
    IF rows = <<>> THEN tracks
    ELSE IF rows[1] = Terminator THEN D7Tracks(Tail(rows), <<>>, Append(tracks, track))
    ELSE D7Tracks(Tail(rows), Append(track, rows[1]), tracks)

RowOk(row, types) ==
    /\ Len(row) = Len(types)
    /\ \A i \in 1..Len(row) : CastOk(types[i], row[i])

Values(row) == [i \in 1..Len(row) |-> row[i].v]

\* read(path_or_string), data being the lines of the input
Diamond7Read(data) ==
    LET head == IF data = <<>> THEN <<>> ELSE data[1]
        tracks == D7Tracks(Tail(data), <<>>, <<>>)
        rowsOf == [t \in 1..Len(tracks) |-> Tail(tracks[t])]
        Sum[t \in 0..Len(tracks)] ==
            IF t = 0 THEN 0 ELSE Sum[t - 1] + tracks[t][1][4].v - Len(rowsOf[t])
    IN  IF Len(head) # 3 \/ ~RowOk(head, S3) THEN D7Raised("ValueError")
        ELSE IF tracks = <<>> THEN D7Returned(D7Empty(head))
        ELSE IF \E t \in 1..Len(tracks) : tracks[t] = <<>> THEN D7Raised("IndexError")
        ELSE IF \E t \in 1..Len(tracks) : ~RowOk(tracks[t][1], Diamond7IndexTypes)
             THEN D7Raised("ValueError")
        ELSE IF \E t \in 1..Len(tracks) :
                    \E r \in 1..Len(rowsOf[t]) : ~RowOk(rowsOf[t][r], Diamond7Columns)
             THEN D7Raised("ValueError")
        ELSE IF (\E t \in 1..Len(tracks) : tracks[t][1][4].v < 0) \/ Sum[Len(tracks)] # 0
             THEN D7Raised("ValueError")
        ELSE D7Returned(D7Object(head,
                                 [t \in 1..Len(tracks) |-> tracks[t][1]],
                                 [t \in 1..Len(tracks) |->
                                     [r \in 1..Len(rowsOf[t]) |-> Values(rowsOf[t][r])]]))

\* '%.nf' of a number held in thousandths: rounded half to even
RoundTo(v, unit) ==
    LET q == v \div unit
        r == v % unit
    IN  IF 2 * r < unit THEN q * unit
        ELSE IF 2 * r > unit THEN (q + 1) * unit
        ELSE IF q % 2 = 0 THEN q * unit ELSE (q + 1) * unit

\* one row written by np.savetxt with the default fmt
D7RowLine(row) ==
    [i \in 1..Len(row) |->
        IF Diamond7Columns[i] = "int" THEN IntTok(row[i])
        ELSE FloatTok(RoundTo(row[i], IF Diamond7Decimals[i] = 1 THEN 100 ELSE 1000))]

\* write(pathfile): the lines of the file written (lines 184-191)
Diamond7Write(obj) ==
    <<obj.head>> \o
        Concat([t \in 1..Len(obj.index) |->
                    (IF t > 1 THEN <<Terminator>> ELSE <<>>)
                        \o <<obj.index[t]>>
                        \o [r \in 1..Len(obj.data[t]) |-> D7RowLine(obj.data[t][r])]])

\* the files read: 1 to MaxTracks tracks of 1 to MaxRows rows, a terminator
\* line between two tracks and, or not, after the last one
Diamond7HeadLine == <<WordTok, IntTok(7), WordTok>>
Diamond7Rows ==
    {<<IntTok(2006), IntTok(9), IntTok(24), IntTok(8), IntTok(0), FloatTok(111300),
       FloatTok(15900), FloatTok(995000), FloatTok(18000), FloatTok(100000), FloatTok(0),
       FloatTok(292500), FloatTok(15000)>>,
     <<IntTok(2006), IntTok(9), IntTok(24), IntTok(8), IntTok(24), FloatTok(107400),
       FloatTok(17300), FloatTok(985000), FloatTok(23000), FloatTok(0), FloatTok(0),
       FloatTok(0), FloatTok(0)>>}
Diamond7TrackRows == UNION {[1..n -> Diamond7Rows] : n \in 1..MaxRows}
Diamond7TrackLines(t, rows) ==
    <<<<NameTok(t), NameTok(10 + t), NameTok(20 + t), IntTok(Len(rows))>>>> \o rows
Diamond7Files ==
    {<<Diamond7HeadLine>>
        \o Concat([t \in 1..Len(trs) |->
                      (IF t > 1 THEN <<Terminator>> ELSE <<>>) \o Diamond7TrackLines(t, trs[t])])
        \o (IF closed THEN <<Terminator>> ELSE <<>>) :
        trs \in UNION {[1..n -> Diamond7TrackRows] : n \in 1..MaxTracks}, closed \in BOOLEAN}

NoD7 == [lines |-> <<>>, read |-> D7Raised(""), written |-> <<>>, reread |-> D7Raised("")]

D7Read ==
    /\ d7pc = "idle"
    /\ \E data \in Diamond7Files :
          /\ d7Input' = data
          /\ d7Result' = [NoD7 EXCEPT !.read = Diamond7Read(data)]
    /\ d7pc' = "read"
    /\ UNCHANGED <<clientVars, laterVars, textVars, d5Vars, d14Vars, latlonVars, gridVars, stationVars>>

\* the object read is written: write needs self.index and self.data
D7Write ==
    /\ d7pc = "read"
    /\ d7Result.read.ok /\ d7Result.read.obj.decoded
    /\ d7Result' = [d7Result EXCEPT !.written = Diamond7Write(d7Result.read.obj)]
    /\ d7pc' = "written"
    /\ UNCHANGED <<d7Input, clientVars, laterVars, textVars, d5Vars, d14Vars, latlonVars, gridVars,
                   stationVars>>

\* the file written is read into a new object
D7Reread ==
    /\ d7pc = "written"
    /\ d7Result' = [d7Result EXCEPT !.reread = Diamond7Read(d7Result.written)]
    /\ d7pc' = "reread"
    /\ UNCHANGED <<d7Input, clientVars, laterVars, textVars, d5Vars, d14Vars, latlonVars, gridVars,
                   stationVars>>

D7Next == D7Read \/ D7Write \/ D7Reread
D7Spec == Init /\ [][D7Next]_vars

\* the tracks of a file as the claim reads them: the groups of lines between
\* terminator lines, the lines after the last terminator being a track too
RECURSIVE ClaimedTracks(_, _)
ClaimedTracks(rows, track) ==
    IF rows = <<>> THEN (IF track = <<>> THEN <<>> ELSE <<track>>)
    ELSE IF rows[1] = Terminator THEN <<track>> \o ClaimedTracks(Tail(rows), <<>>)
    ELSE ClaimedTracks(Tail(rows), Append(track, rows[1]))

\* C14 (the claim as stated): read decodes every track of the input, the
\* last one too when no terminator line follows it: the index holds the
\* index row of each track and the data holds all its data rows.
C14_EveryTrackDecoded ==
    (d7pc = "read") =>
        LET claimed == ClaimedTracks(Tail(d7Input), <<>>)
            obj == d7Result.read.obj
        IN  /\ d7Result.read.ok
            /\ Len(obj.index) = Len(claimed)
            /\ \A t \in 1..Len(claimed) :
                  /\ obj.index[t] = claimed[t][1]
                  /\ obj.data[t] = [r \in 1..(Len(claimed[t]) - 1) |-> Values(claimed[t][r + 1])]

\* C15 (the claim as stated): reading back what write wrote gives the head,
\* the index rows and the data rows of the object written.
C15_RoundTrip ==
    (d7pc = "reread") =>
        /\ d7Result.reread.ok
        /\ d7Result.reread.obj = d7Result.read.obj


(***************************************************************************)
(* The artist-section parsers of Diamond14 (diamond/diamond14.py):         *)
(* read_lines, read_symbols and read_notes_symbol. data is content.split() *)
(* and idx the cursor, counted from 0 as in the source.                    *)
(***************************************************************************)
Numeric(toks) == \A i \in 1..Len(toks) : toks[i].k \in {"int", "float"}
Integral(toks) == \A i \in 1..Len(toks) : toks[i].k = "int"

RecRaised(e) == [ok |-> FALSE, err |-> e, rec |-> <<>>, next |-> 0]
RecOk(r, n) == [ok |-> TRUE, err |-> "", rec |-> r, next |-> n]

\* the label, the label count and the label points of a line, from idx
\* (diamond14.py:158-176)
LineLabel(data, idx, width, xyz) ==
    IF idx + 1 >= Len(data) THEN RecRaised("IndexError")
    ELSE IF data[idx + 2].k # "int" THEN RecRaised("ValueError")
    ELSE LET label_num == data[idx + 2].v
             label_xyz == IF label_num > 0
                          THEN PySlice(data, idx + 2, idx + 2 + 3 * label_num) ELSE <<>>
         IN  IF label_num > 0 /\ (~Numeric(label_xyz) \/ Len(label_xyz) # 3 * label_num)
             THEN RecRaised("ValueError")
             ELSE RecOk([width |-> width, xyz |-> xyz, label |-> data[idx + 1],
                         label_xyz |-> label_xyz],
                        idx + 2 + (IF label_num > 0 THEN 3 * label_num ELSE 0))

\* one pass of the loop of read_lines (diamond14.py:141-176)
LineRecord(data, idx) ==
    IF idx >= Len(data) THEN RecRaised("IndexError")
    ELSE IF ~Numeric(<<data[idx + 1]>>) THEN RecRaised("ValueError")
    ELSE IF idx + 1 >= Len(data) THEN RecRaised("IndexError")
    ELSE IF data[idx + 2].k # "int" THEN RecRaised("ValueError")
    ELSE LET xyz_num == data[idx + 2].v
             xyz == PySlice(data, idx + 2, idx + 2 + 3 * xyz_num)
         IN  IF ~Numeric(xyz) \/ xyz_num < 0 \/ Len(xyz) # 3 * xyz_num
             THEN RecRaised("ValueError")
             ELSE LineLabel(data, idx + 2 + 3 * xyz_num, data[idx + 1], xyz)

\* one pass of the loop of read_symbols (diamond14.py:250-264)
SymbolRecord(data, idx) ==
    IF idx >= Len(data) THEN RecRaised("IndexError")
    ELSE IF data[idx + 1].k # "int" THEN RecRaised("ValueError")
    ELSE LET xyz == PySlice(data, idx + 1, idx + 4)
         IN  IF ~Numeric(xyz) THEN RecRaised("ValueError")
             ELSE IF idx + 4 >= Len(data) THEN RecRaised("IndexError")
             ELSE RecOk([code |-> data[idx + 1], xyz |-> xyz, value |-> data[idx + 5]],
                        idx + 5)

\* one pass of the loop of read_notes_symbol (diamond14.py:483-532)
NotesRecord(data, idx) ==
    IF idx >= Len(data) THEN RecRaised("IndexError")
    ELSE IF data[idx + 1].k # "int" THEN RecRaised("ValueError")
    ELSE LET xyz == PySlice(data, idx + 1, idx + 4)
             color == PySlice(data, idx + 11, idx + 15)
         IN  IF ~Numeric(xyz) THEN RecRaised("ValueError")
             ELSE IF idx + 4 >= Len(data) THEN RecRaised("IndexError")
             ELSE IF data[idx + 5].k # "int" THEN RecRaised("ValueError")
             ELSE IF idx + 10 >= Len(data) THEN RecRaised("IndexError")
             ELSE IF ~Integral(color) THEN RecRaised("ValueError")
             ELSE RecOk([code |-> data[idx + 1], xyz |-> xyz, charLen |-> data[idx + 5],
                         text |-> SubSeq(data, idx + 6, idx + 11), color |-> color],
                        idx + 15)

SectionRecord(section, data, idx) ==
    CASE section = "LINES" -> LineRecord(data, idx)
      [] section = "SYMBOLS" -> SymbolRecord(data, idx)
      [] section = "NOTES_SYMBOL" -> NotesRecord(data, idx)

SecRaised(e) == [ok |-> FALSE, err |-> e, recs |-> <<>>, next |-> 0]

\* for i in range(nlines), i records being read already
RECURSIVE SectionLoop(_, _, _, _, _, _)
SectionLoop(section, data, nlines, i, idx, recs) ==
    IF i >= nlines THEN [ok |-> TRUE, err |-> "", recs |-> recs, next |-> idx]
    ELSE LET r == SectionRecord(section, data, idx)
         IN  IF ~r.ok THEN SecRaised(r.err)
             ELSE SectionLoop(section, data, nlines, i + 1, r.next, Append(recs, r.rec))

\* read_lines(content), read_symbols(content), read_notes_symbol(content)
ReadSection(section, data) ==
    IF Len(data) < 2 THEN SecRaised("IndexError")
    ELSE IF data[2].k # "int" THEN SecRaised("ValueError")
    ELSE SectionLoop(section, data, data[2].v, 0, 2, <<>>)

\* the sections parsed: the key, the declared number of records, 0 to
\* MaxRecords well-formed records, the last MaxCut tokens or fewer cut off
MaxRecords == 2
Floats(n) == [i \in 1..n |-> FloatTok(i)]
SampleRecords(section) ==
    CASE section = "LINES" ->
            {<<FloatTok(1), IntTok(n)>> \o Floats(3 * n) \o <<WordTok, IntTok(m)>>
                \o Floats(3 * m) : n \in 1..2, m \in 0..1}
      [] section = "SYMBOLS" -> {<<IntTok(c)>> \o Floats(3) \o <<WordTok>> : c \in {48, 60}}
      [] section = "NOTES_SYMBOL" ->
            {<<IntTok(c)>> \o Floats(3) \o <<IntTok(2), WordTok, IntTok(0), IntTok(4),
                WordTok, IntTok(12), IntTok(0), IntTok(255), IntTok(0), IntTok(0), IntTok(0)>> :
                c \in {48, 60}}
Sections == {"LINES", "SYMBOLS", "NOTES_SYMBOL"}
SectionInputsOf(sec) ==
    {[section |-> sec,
      data |-> LET whole == <<WordTok, IntTok(declared)>> \o Concat(recs)
               IN  SubSeq(whole, 1, IF cut > Len(whole) THEN 0 ELSE Len(whole) - cut)] :
        declared \in 0..MaxRecords, cut \in 0..MaxCut,
        recs \in UNION {[1..n -> SampleRecords(sec)] : n \in 0..MaxRecords}}
SectionInputs == UNION {SectionInputsOf(sec) : sec \in Sections}

D14Parse ==
    /\ d14pc = "idle"
    /\ \E in \in SectionInputs :
          /\ d14Input' = in
          /\ d14Result' = ReadSection(in.section, in.data)
    /\ d14pc' = "done"
    /\ UNCHANGED <<clientVars, laterVars, textVars, d5Vars, d7Vars, latlonVars, gridVars, stationVars>>

D14Next == D14Parse
D14Spec == Init /\ [][D14Next]_vars

\* C16 (the claim as stated): a section parser returns only when the tokens
\* of the section are exactly those its declared counts imply: the cursor
\* ends at the end of the section, no token missing and none left over.
C16_CursorAtEnd ==
    (d14pc = "done" /\ d14Result.ok) => d14Result.next = Len(d14Input.data)


(***************************************************************************)
(* LatLon.decompress (latlon.py:117-140). buf holds 16-bit integers; the   *)
(* grid is data[y][x] with y in 0..rows-1 and x in 0..cols-1.              *)
(***************************************************************************)
MaxGrid == 2
MaxRuns == 2

\* the sum of two 16-bit integers, as a 16-bit integer
Wrap16(v) == ((v + 32768) % 65536) - 32768

\* int(head.nodata * head.amp + 0.5), for a nodata without decimals: the
\* value truncated towards zero
Background(nodata, amp) ==
    LET twice == 2 * nodata * amp + 1
    IN  IF twice >= 0 THEN twice \div 2 ELSE -((-twice) \div 2)

LRaised(e) == [ok |-> FALSE, err |-> e, grid |-> <<>>]
LReturned(g) == [ok |-> TRUE, err |-> "", grid |-> g]

\* a mutation of Continues: a run of length 0 does not end the stream
ContinuesOnEmptyRun(y, x, n) == y >= 0 /\ x >= 0 /\ n >= 0

\* the condition of the while loop, latlon.py:135
Continues(y, x, n) == y >= 0 /\ x >= 0 /\ n > 0

\* data[y, lo:hi] = vals, where vals has as many values as the slice or one
Assign(data, y, lo, hi, vals) ==
    [data EXCEPT ![y + 1] =
        [c \in 1..Len(data[y + 1]) |->
            IF c > lo /\ c <= hi
            THEN (IF Len(vals) = 1 THEN vals[1] ELSE vals[c - lo])
            ELSE data[y + 1][c]]]

\* the while loop of lines 133-140 on what is left of buf
RECURSIVE DecompressLoop(_, _, _, _)
DecompressLoop(data, rows, cols, buf) ==
    IF Len(buf) < 3 THEN LRaised("ValueError")
    ELSE LET y == buf[1]
             x == buf[2]
             n == buf[3]
             rest == PySlice(buf, 3, Len(buf))
             lo == SliceBound(x, cols)
             hi == SliceBound(Wrap16(x + n), cols)
             vals == PySlice(rest, 0, n)
         IN  IF ~Continues(y, x, n) THEN LReturned(data)
             ELSE IF y >= rows THEN LRaised("IndexError")
             ELSE IF Len(vals) # (IF hi > lo THEN hi - lo ELSE 0) /\ Len(vals) # 1
                  THEN LRaised("ValueError")
             ELSE DecompressLoop(Assign(data, y, lo, hi, vals), rows, cols,
                                 PySlice(rest, n, Len(rest)))

\* decompress(buf) on a head with the given rows, cols, nodata and amp
Decompress(rows, cols, nodata, amp, buf) ==
    DecompressLoop([r \in 1..rows |-> [c \in 1..cols |-> Background(nodata, amp)]],
                   rows, cols, buf)

\* the streams decompressed: up to MaxRuns runs, each with its literal
\* values, and the end of the buffer
Run(y, x, n, i) == [y |-> y, x |-> x, vals |-> [j \in 1..n |-> 100 * i + j]]
RunTokens(run) == <<run.y, run.x, Len(run.vals)>> \o run.vals
RunLists ==
    UNION {[1..k -> [y : 0..1, x : 0..MaxGrid, n : 1..2]] : k \in 0..MaxRuns}
\* what ends the buffer: a terminating triple, alone or followed by a further
\* run, or nothing at all
BufferEnds ==
    {[closed |-> TRUE, tokens |-> <<-1, 0, 0>>],
     [closed |-> TRUE, tokens |-> <<0, -1, 1>>],
     [closed |-> TRUE, tokens |-> <<0, 0, 0>>],
     [closed |-> TRUE, tokens |-> <<0, 0, 0, 0, 0, 1, 77, -1, -1, -1>>],
     [closed |-> FALSE, tokens |-> <<>>]}
LatLonInput(rows, cols, rl, tail) ==
    LET runs == [i \in 1..Len(rl) |-> Run(rl[i].y, rl[i].x, rl[i].n, i)]
    IN  [rows |-> rows, cols |-> cols, nodata |-> -1, amp |-> 10, runs |-> runs,
         closed |-> tail.closed,
         buf |-> Concat([i \in 1..Len(runs) |-> RunTokens(runs[i])]) \o tail.tokens]

LDecompress ==
    /\ lpc = "idle"
    /\ \E rows \in 1..MaxGrid, cols \in 1..MaxGrid, rl \in RunLists, tail \in BufferEnds :
          LET in == LatLonInput(rows, cols, rl, tail)
          IN  /\ lInput' = in
              /\ lResult' = Decompress(in.rows, in.cols, in.nodata, in.amp, in.buf)
    /\ lpc' = "done"
    /\ UNCHANGED <<clientVars, laterVars, textVars, d5Vars, d7Vars, d14Vars, gridVars, stationVars>>

LatLonNext == LDecompress
LatLonSpec == Init /\ [][LatLonNext]_vars

\* the runs of the input that cover the cell (y, x)
Covering(y, x) ==
    {i \in 1..Len(lInput.runs) :
        /\ lInput.runs[i].y = y
        /\ lInput.runs[i].x <= x
        /\ x < lInput.runs[i].x + Len(lInput.runs[i].vals)}
LastOf(S) == CHOOSE i \in S : \A j \in S : j <= i
InGrid(run) == run.y < lInput.rows /\ run.x + Len(run.vals) <= lInput.cols

\* C17: the grid returned has rows x cols cells; a cell covered by a run of
\* the stream before its terminating triple holds the literal value the last
\* such run supplies for it, every other cell holds the background value;
\* a stream of runs inside the grid that ends with a terminating triple is
\* decompressed without an error, whatever follows the triple.
\* (The background of the sample head is int(-1 * 10 + 0.5) = -9.)
C17_RunsOverBackground ==
    (lpc = "done") =>
        /\ lResult.ok =>
              /\ Len(lResult.grid) = lInput.rows
              /\ \A y \in 0..(lInput.rows - 1) :
                    /\ Len(lResult.grid[y + 1]) = lInput.cols
                    /\ \A x \in 0..(lInput.cols - 1) :
                          lResult.grid[y + 1][x + 1] =
                              IF Covering(y, x) = {} THEN -9
                              ELSE LET run == lInput.runs[LastOf(Covering(y, x))]
                                   IN  run.vals[x - run.x + 1]
        /\ (lInput.closed /\ \A i \in 1..Len(lInput.runs) : InGrid(lInput.runs[i]))
              => lResult.ok

\* two runs on the first row of a 2 x 2 grid, the second overriding the
\* first cell of the first; the second row is left at the background, and
\* the run that follows the terminating triple is not applied
C17_Witness ==
    /\ lpc = "done" /\ lResult.ok
    /\ lInput.rows = 2 /\ lInput.cols = 2
    /\ Len(lInput.runs) = 2
    /\ Len(lInput.buf) > 14
    /\ lResult.grid = <<<<201, 102>>, <<-9, -9>>>>

\* C18 (the claim as stated): a run that would write a cell outside the
\* grid, row >= rows or col-start + run-length > cols, makes decompress fail.
C18_OverrunFails ==
    (lpc = "done" /\ lInput.closed /\ \E i \in 1..Len(lInput.runs) : ~InGrid(lInput.runs[i]))
        => ~lResult.ok


(***************************************************************************)
(* MdfsGridData.read (mdfs_grid_data.py:83-125). A buffer is a sequence of *)
(* bytes; a 4-byte float is known by the four bytes that encode it.         *)
(***************************************************************************)
MaxBlocks == 2
MaxPad == 4
GridHeadSize == 278
VectorType == 11

\* struct 'i' at a byte offset: four bytes, low byte first, two's complement
Int32At(b, off) ==
    b[off + 1] + 256 * b[off + 2] + 65536 * b[off + 3]
        + 16777216 * (IF b[off + 4] >= 128 THEN b[off + 4] - 256 ELSE b[off + 4])
\* struct 'f' at a byte offset: the float that these four bytes encode
Float32At(b, off) == <<b[off + 1], b[off + 2], b[off + 3], b[off + 4]>>

\* the fields of '=4sh20s50s30sfiiiiiifffifffifff100s' that read uses
MdfsGridHead(b) ==
    [dtype |-> Int16(b[5], b[6]),
     year |-> Int32At(b, 110), month |-> Int32At(b, 114),
     day |-> Int32At(b, 118), hour |-> Int32At(b, 122),
     latitudeGridNumber |-> Int32At(b, 146),
     longitudeGridNumber |-> Int32At(b, 162)]

\* n floats from the bytes of a slice
FloatsOf(b, n) == [j \in 1..n |-> Float32At(b, 4 * (j - 1))]

BlockRaised(e) == [ok |-> FALSE, err |-> e, head |-> <<>>, magnitude |-> <<>>, angle |-> <<>>]
BlockRead(h, m, a) == [ok |-> TRUE, err |-> "", head |-> h, magnitude |-> m, angle |-> a]

\* read_block(bytes_arr) of lines 84-99, inside read(bytes_array): the
\* angle part of a vector block is taken from bytes_array, the buffer of read
read_block(bytes_arr, bytes_array) ==
    LET raw == PySlice(bytes_arr, 0, GridHeadSize)
    IN  IF Len(raw) # GridHeadSize THEN BlockRaised("struct.error")
        ELSE LET h == MdfsGridHead(raw)
                 n_points == h.latitudeGridNumber * h.longitudeGridNumber
                 body == PySlice(bytes_arr, GridHeadSize, GridHeadSize + n_points * 4)
                 p == GridHeadSize + n_points * 4
                 block_size == p + n_points * 4
                 body_angle == PySlice(bytes_array, p, block_size)
             IN  IF n_points <= 0 \/ Len(body) # n_points * 4 THEN BlockRaised("ValueError")
                 ELSE IF h.dtype # VectorType
                      THEN BlockRead(h, FloatsOf(body, n_points), <<>>)
                 ELSE IF Len(body_angle) # n_points * 4 THEN BlockRaised("struct.error")
                 ELSE BlockRead(h, FloatsOf(body, n_points), FloatsOf(body_angle, n_points))

\* to_xarray builds datetime(year, month, day, hour), line 148
ValidTime(h) ==
    /\ h.year \in 1..9999 /\ h.month \in 1..12
    /\ h.day \in 1..28 /\ h.hour \in 0..23

GridRaised(e) == [ok |-> FALSE, err |-> e, stacked |-> FALSE, blocks |-> <<>>]
GridRead(st, bl) == [ok |-> TRUE, err |-> "", stacked |-> st, blocks |-> bl]

\* the loop of lines 115-119 from block i on
RECURSIVE StackBlocks(_, _, _, _, _)
StackBlocks(bytes_array, block_size, nblocks, i, blockDatas) ==
    IF i >= nblocks THEN GridRead(TRUE, blockDatas)
    ELSE LET b == read_block(PySlice(bytes_array, block_size * i, block_size * (i + 1)),
                             bytes_array)
         IN  IF ~b.ok THEN GridRaised(b.err)
             ELSE IF ~ValidTime(b.head) THEN GridRaised("ValueError")
             ELSE StackBlocks(bytes_array, block_size, nblocks, i + 1,
                              Append(blockDatas, [magnitude |-> b.magnitude, angle |-> b.angle]))

\* read(bytes_array), lines 106-125
GridDataRead(bytes_array) ==
    LET first == read_block(bytes_array, bytes_array)
    IN  IF ~first.ok THEN GridRaised(first.err)
        ELSE LET nbytes == Len(bytes_array)
                 size == first.head.latitudeGridNumber * first.head.longitudeGridNumber
                 block_size == GridHeadSize
                                  + size * 4 * (IF first.head.dtype = VectorType THEN 2 ELSE 1)
                 data == [magnitude |-> first.magnitude, angle |-> first.angle]
             IN  IF ~ValidTime(first.head) THEN GridRaised("ValueError")
                 ELSE IF nbytes > block_size /\ nbytes % block_size = 0
                      THEN StackBlocks(bytes_array, block_size, nbytes \div block_size,
                                       1, <<data>>)
                 ELSE GridRead(FALSE, <<data>>)

\* the buffers read: up to MaxBlocks blocks of one grid and one type code,
\* block i with its own values, the buffer cut short by up to MaxCut bytes
\* or followed by up to MaxPad further bytes
Bytes32(v) == <<v % 256, (v \div 256) % 256, (v \div 65536) % 256, 0>>
GridHeadBytes(dtype, latN, lonN) ==
    [q \in 1..GridHeadSize |->
        IF q = 5 THEN dtype
        ELSE IF q \in 111..114 THEN Bytes32(2024)[q - 110]
        ELSE IF q \in {115, 119} THEN 1
        ELSE IF q \in 147..150 THEN Bytes32(latN)[q - 146]
        ELSE IF q \in 163..166 THEN Bytes32(lonN)[q - 162]
        ELSE 0]
GridBlockBytes(dtype, latN, lonN, i) ==
    GridHeadBytes(dtype, latN, lonN)
        \o Concat([j \in 1..(latN * lonN) |-> Bytes32(10 * i + j)])
        \o (IF dtype = VectorType
            THEN Concat([j \in 1..(latN * lonN) |-> Bytes32(100 + 10 * i + j)])
            ELSE <<>>)
GridBuffer(dtype, latN, lonN, k, delta) ==
    LET whole == Concat([i \in 1..k |-> GridBlockBytes(dtype, latN, lonN, i)])
    IN  IF delta <= 0 THEN SubSeq(whole, 1, Len(whole) + delta)
        ELSE whole \o [q \in 1..delta |-> 0]

GRead ==
    /\ mpc = "idle"
    /\ \E dtype \in {4, VectorType}, latN \in 1..MaxGrid, lonN \in 1..MaxGrid,
          k \in 1..MaxBlocks, delta \in (-MaxCut)..MaxPad :
          LET bytes_array == GridBuffer(dtype, latN, lonN, k, delta)
          IN  /\ mInput' = bytes_array
              /\ mResult' = GridDataRead(bytes_array)
    /\ mpc' = "done"
    /\ UNCHANGED <<clientVars, laterVars, textVars, d5Vars, d7Vars, d14Vars, latlonVars, stationVars>>

GridNext == GRead
GridSpec == Init /\ [][GridNext]_vars

\* the block size the first header gives, and block i of the buffer decoded
\* on its own
FirstBlockSize ==
    LET h == MdfsGridHead(mInput)
    IN  GridHeadSize + 4 * h.latitudeGridNumber * h.longitudeGridNumber
                           * (IF h.dtype = VectorType THEN 2 ELSE 1)
BlockAlone(i) ==
    LET b == SubSeq(mInput, FirstBlockSize * (i - 1) + 1, FirstBlockSize * i)
        r == read_block(b, b)
    IN  [magnitude |-> r.magnitude, angle |-> r.angle]

\* C19 (the claim as stated): a buffer of k times the block size of the first
\* header is read as k stacked blocks, entry i being block i of the buffer;
\* a buffer of any other length is read as one single block.
C19_StackedIffMultiple ==
    (mpc = "done") =>
        /\ mResult.ok
        /\ IF Len(mInput) % FirstBlockSize = 0
           THEN /\ mResult.stacked
                /\ Len(mResult.blocks) = Len(mInput) \div FirstBlockSize
                /\ \A i \in 1..Len(mResult.blocks) : mResult.blocks[i] = BlockAlone(i)
           ELSE /\ ~mResult.stacked
                /\ Len(mResult.blocks) = 1


(***************************************************************************)
(* MdfsStationData.read (mdfs_station_data.py:109-147). The table is a     *)
(* function from the row keys to the rows; a column is named by its        *)
(* element id (the names of ElementNameDict.yml stand one for one id).     *)
(***************************************************************************)
MaxStations == 2
StationHeadSize == 288

\* _element_type_dict, line 151, and calcsize('=' + type)
ElementTypeCodes == 1..7
ElementSize(t) ==
    CASE t = 1 -> 1 [] t = 2 -> 2 [] t = 3 -> 4 [] t = 4 -> 4
      [] t = 5 -> 4 [] t = 6 -> 8 [] t = 7 -> 1

\* unpack('=' + type, raw)[0] on a slice of the right size
ElementValue(t, raw) ==
    CASE t = 1 -> (IF raw[1] >= 128 THEN raw[1] - 256 ELSE raw[1])
      [] t = 2 -> Int16(raw[1], raw[2])
      [] t \in {3, 4} -> Int32At(raw, 0)
      [] OTHER -> raw

\* OrderedDict(zip_longest(*[iter(elementIdTypeMap)] * 2)), lines 120-124:
\* a later pair with the same id replaces an earlier one
RECURSIVE IdTypeMap(_, _)
IdTypeMap(b, n) ==
    IF n = 0 THEN << >>
    ELSE LET off == 4 * (n - 1)
         IN  (Int16(b[off + 1], b[off + 2]) :> Int16(b[off + 3], b[off + 4]))
                 @@ IdTypeMap(b, n - 1)

SRaised(e) == [ok |-> FALSE, err |-> e, stationNum |-> 0, rows |-> << >>]
SReturned(n, d) == [ok |-> TRUE, err |-> "", stationNum |-> n, rows |-> d]

\* the loop of lines 137-145 for one station record, from element j on;
\* data[station id] is set in the body of this loop
RECURSIVE ElementLoop(_, _, _, _, _, _, _)
ElementLoop(b, p, map, j, count, element, data) ==
    IF j >= count THEN [ok |-> TRUE, err |-> "", p |-> p, data |-> data]
    ELSE LET idRaw == PySlice(b, p, p + 2)
         IN  IF Len(idRaw) # 2 THEN [ok |-> FALSE, err |-> "struct.error", p |-> p, data |-> data]
             ELSE LET element_id == Int16(idRaw[1], idRaw[2])
                  IN  IF element_id \notin DOMAIN map \/ map[element_id] \notin ElementTypeCodes
                      THEN [ok |-> FALSE, err |-> "KeyError", p |-> p, data |-> data]
                      ELSE LET size == ElementSize(map[element_id])
                               raw == PySlice(b, p + 2, p + 2 + size)
                               filled == (element_id :> ElementValue(map[element_id], raw))
                                            @@ element.elements
                               element2 == [element EXCEPT !.elements = filled]
                           IN  IF Len(raw) # size
                               THEN [ok |-> FALSE, err |-> "struct.error", p |-> p, data |-> data]
                               ELSE ElementLoop(b, p + 2 + size, map, j + 1, count, element2,
                                                (element.stid :> element2) @@ data)

\* the loop of lines 132-145 from station i on
RECURSIVE StationLoop(_, _, _, _, _, _)
StationLoop(b, p, map, i, stationNum, data) ==
    IF i >= stationNum THEN SReturned(stationNum, data)
    ELSE LET raw == PySlice(b, p, p + 14)
         IN  IF Len(raw) # 14 THEN SRaised("struct.error")
             ELSE LET element == [stid |-> Int32At(raw, 0), lon |-> Float32At(raw, 4),
                                  lat |-> Float32At(raw, 8), elements |-> << >>]
                      r == ElementLoop(b, p + 14, map, 0, Int16(raw[13], raw[14]),
                                       element, data)
                  IN  IF ~r.ok THEN SRaised(r.err)
                      ELSE StationLoop(b, r.p, map, i + 1, stationNum, r.data)

\* read(bytes_array), lines 109-147
StationDataRead(b) ==
    IF Len(PySlice(b, 0, StationHeadSize)) # StationHeadSize THEN SRaised("struct.error")
    ELSE IF Len(PySlice(b, StationHeadSize, StationHeadSize + 6)) # 6
         THEN SRaised("struct.error")
    ELSE LET stationNum == Int32At(b, StationHeadSize)
             elementNum == Int16(b[StationHeadSize + 5], b[StationHeadSize + 6])
             mapRaw == PySlice(b, StationHeadSize + 6, StationHeadSize + 6 + 4 * elementNum)
         IN  IF elementNum < 0 \/ Len(mapRaw) # 4 * elementNum THEN SRaised("struct.error")
             ELSE StationLoop(b, StationHeadSize + 6 + 4 * elementNum,
                              IdTypeMap(mapRaw, elementNum), 0, stationNum, << >>)

\* the files read: up to MaxStations station records, each with one of two
\* station ids and a list of element ids; elements 1 (a float) and 2 (a
\* short) are in the element map of the file, element 3 is not; the head
\* declares the number of records or one more
Bytes16(v) == <<v % 256, (v \div 256) % 256>>
SampleElementMap == <<1, 5, 2, 2>>
StationIds == {101, 102}
ElementLists == {<<>>, <<1>>, <<1, 2>>, <<3>>}
StationRecord(id, elems, i) ==
    [stid |-> id, lon |-> Bytes32(110 + i), lat |-> Bytes32(30 + i),
     ids |-> elems, values |-> [j \in 1..Len(elems) |-> 40 + 10 * i + elems[j]]]
StationRecordBytes(rec) ==
    Bytes32(rec.stid) \o rec.lon \o rec.lat \o Bytes16(Len(rec.ids))
        \o Concat([j \in 1..Len(rec.ids) |->
                      Bytes16(rec.ids[j])
                          \o (IF rec.ids[j] = 2 THEN Bytes16(rec.values[j])
                              ELSE Bytes32(rec.values[j]))])
StationFileBytes(declared, recs) ==
    [q \in 1..StationHeadSize |-> 0] \o Bytes32(declared) \o Bytes16(2)
        \o Concat([j \in 1..4 |-> Bytes16(SampleElementMap[j])])
        \o Concat([i \in 1..Len(recs) |-> StationRecordBytes(recs[i])])
StationLists ==
    UNION {[1..k -> [id : StationIds, elems : ElementLists]] : k \in 0..MaxStations}
StationFile(rl, more) ==
    LET recs == [i \in 1..Len(rl) |-> StationRecord(rl[i].id, rl[i].elems, i)]
    IN  [declared |-> Len(recs) + more, recs |-> recs,
         bytes |-> StationFileBytes(Len(recs) + more, recs)]

SRead ==
    /\ spc = "idle"
    /\ \E rl \in StationLists, more \in {0, 1} :
          LET file == StationFile(rl, more)
          IN  /\ sInput' = file
              /\ sResult' = StationDataRead(file.bytes)
    /\ spc' = "done"
    /\ UNCHANGED <<clientVars, laterVars, textVars, d5Vars, d7Vars, d14Vars, latlonVars, gridVars>>

StationNext == SRead
StationSpec == Init /\ [][StationNext]_vars

\* the value the table holds for a record's element: a short as a number,
\* a float as its bytes
ValueRead(id, v) == IF id = 2 THEN v ELSE Bytes32(v)

\* C20 (the claim as stated): for a file whose head declares the number of
\* its station records and whose records list elements of the element map,
\* read yields stationNum rows, and every record has its row, keyed by its
\* station id, with its longitude, its latitude and its elements.
C20_RowPerStation ==
    (/\ spc = "done"
     /\ sInput.declared = Len(sInput.recs)
     /\ \A i \in 1..Len(sInput.recs) : \A j \in 1..Len(sInput.recs[i].ids) :
           sInput.recs[i].ids[j] \in {1, 2})
        => /\ sResult.ok
           /\ sResult.stationNum = Len(sInput.recs)
           /\ Cardinality(DOMAIN sResult.rows) = sResult.stationNum
           /\ \A i \in 1..Len(sInput.recs) :
                 LET rec == sInput.recs[i]
                 IN  /\ rec.stid \in DOMAIN sResult.rows
                     /\ sResult.rows[rec.stid].lon = rec.lon
                     /\ sResult.rows[rec.stid].lat = rec.lat
                     /\ DOMAIN sResult.rows[rec.stid].elements
                            = {rec.ids[j] : j \in 1..Len(rec.ids)}
                     /\ \A j \in 1..Len(rec.ids) :
                           sResult.rows[rec.stid].elements[rec.ids[j]]
                               = ValueRead(rec.ids[j], rec.values[j])


(***************************************************************************)
(* sel(lat=slice(a, b)) of the grid decoders (mdfs_grid_data.py:65-81,     *)
(* latlon.py:70-86, diamond4.py:82-98, diamond11.py:77-93). The latitude   *)
(* axis is the pandas index of the 'lat' coordinate; a row is known by its *)
(* 0-based position on the axis.                                           *)
(***************************************************************************)
MaxAxis == 3
MaxLat == 4

\* np.linspace(start, stop, n) for a stop that is start plus n - 1 whole steps
Linspace(start, stop, n) ==
    [i \in 1..n |-> IF n = 1 THEN start ELSE start + ((i - 1) * (stop - start)) \div (n - 1)]

\* Index.is_monotonic_increasing and Index.is_monotonic_decreasing
IsMonotonicIncreasing(index) ==
    \A i, j \in 1..Len(index) : i < j => index[i] <= index[j]
IsMonotonicDecreasing(index) ==
    \A i, j \in 1..Len(index) : i < j => index[i] >= index[j]

\* searchsorted(label, side) on an ascending sequence
Searchsorted(asc, label, side) ==
    IF side = "left" THEN Cardinality({i \in 1..Len(asc) : asc[i] < label})
    ELSE Cardinality({i \in 1..Len(asc) : asc[i] <= label})

\* Index.get_slice_bound(label, side) on a monotonic index: the bound of a
\* label of the index and the insertion point of any other label agree with
\* searchsorted, taken on the reversed index when it is not ascending
GetSliceBound(index, label, side) ==
    IF IsMonotonicIncreasing(index) THEN Searchsorted(index, label, side)
    ELSE LET n == Len(index)
             reversed == [i \in 1..n |-> index[n + 1 - i]]
         IN  n - Searchsorted(reversed, label, IF side = "left" THEN "right" ELSE "left")

\* self._ds.sel(lat=slice(start, stop)): the positions start_slice..end_slice-1
DatasetSel(index, start, stop) ==
    LET start_slice == GetSliceBound(index, start, "left")
        end_slice == GetSliceBound(index, stop, "right")
    IN  [i \in 1..(IF end_slice > start_slice THEN end_slice - start_slice ELSE 0) |->
            start_slice + i - 1]

\* sel(lat=slice(a, b)): the bounds are swapped when the index is
\* monotonic decreasing
GridSel(index, a, b) ==
    IF IsMonotonicDecreasing(index) THEN DatasetSel(index, b, a)
    ELSE DatasetSel(index, a, b)

GridDecoders == {"MdfsGridData", "LatLon", "Diamond4", "Diamond11"}

QSel ==
    /\ qpc = "idle"
    /\ \E decoder \in GridDecoders, n \in 1..MaxAxis, start \in 0..MaxLat, step \in {-1, 1},
          a \in 0..MaxLat, b \in 0..MaxLat :
          /\ a <= b
          /\ start + step * (n - 1) \in 0..MaxLat
          /\ qInput' = [decoder |-> decoder, a |-> a, b |-> b,
                        lats |-> Linspace(start, start + step * (n - 1), n)]
          /\ qResult' = GridSel(Linspace(start, start + step * (n - 1), n), a, b)
    /\ qpc' = "done"
    /\ UNCHANGED <<clientVars, decoderVars, headVars, walkVars, frameVars, artistVars>>

GridSelNext == QSel
GridSelSpec == Init /\ [][GridSelNext]_vars

\* the rows of the axis whose latitude lies in [a, b], in the order of the axis
RECURSIVE RowsWithin(_, _, _, _)
RowsWithin(lats, a, b, i) ==
    IF i > Len(lats) THEN <<>>
    ELSE (IF a <= lats[i] /\ lats[i] <= b THEN <<i - 1>> ELSE <<>>)
             \o RowsWithin(lats, a, b, i + 1)

\* C21 (the claim as stated): sel(lat=slice(a, b)) with a <= b returns
\* exactly the rows whose latitude lies in [a, b], on an ascending and on a
\* descending axis, for every axis length from 1 upwards.
C21_RowsInRange ==
    (qpc = "done") => qResult = RowsWithin(qInput.lats, qInput.a, qInput.b, 1)


(***************************************************************************)
(* The value sel returns (client.py:71-92).                                *)
(***************************************************************************)
\* C22: without merge, a sel that returns gives back the single result
\* itself when the product holds exactly one request, and the list of the
\* per-leaf results, entry for entry, when it holds more than one; and it
\* does return whenever every leaf has run and one of them gave a result.
C22_SingleOrList ==
    (pc = "done" /\ ~args.merge) =>
        /\ (ret.status = "returned" /\ Len(requests) = 1) =>
              (ret.form = "single" /\ ret.items = <<datas[1]>> /\ datas[1] # NoneResult)
        /\ (ret.status = "returned" /\ Len(requests) > 1) =>
              (ret.form = "list" /\ ret.items = datas /\ Len(datas) = Len(requests))
        /\ (Len(datas) = Len(requests) /\ ~AllFailed(datas)) => ret.status = "returned"

\* a product of two requests, the first leaf failed and the second gave a
\* result: the list returned holds the absent result and the result
C22_Witness ==
    /\ pc = "done" /\ ~args.merge
    /\ Len(requests) = 2
    /\ ret.status = "returned" /\ ret.form = "list"
    /\ ret.items[1] = NoneResult /\ ret.items[2] # NoneResult


\* the kinds of the results that are present
PresentKinds == {datas[i].kind : i \in {j \in 1..Len(datas) : datas[j] # NoneResult}}

\* C23 (the claim as stated): with merge requested, when the present results
\* are neither all grids nor all tables, sel raises an error and returns no
\* result.
C23_MixedMergeRaises ==
    (/\ pc = "done" /\ args.merge
     /\ Len(datas) = Len(requests)
     /\ ~AllFailed(datas)
     /\ ~(PresentKinds \subseteq {"DataArray", "Dataset"})
     /\ ~(PresentKinds \subseteq {"DataFrame"}))
        => ret.status = "raised"


(***************************************************************************)
(* The head of a text format read and written back: DiamondNHead built    *)
(* from the tokens with _cast_fields_types (diamond4.py:41-47), then       *)
(* tuple(map(str, astuple(self.head))) of write (diamond4.py:135-138).     *)
(* A token is a text; a float is held in thousandths.                      *)
(***************************************************************************)
HeadFormats == {1, 2, 4, 5, 8, 16, 41, 42}

DigitValue(c) == (CHOOSE i \in 1..10 : DigitChars[i] = c) - 1
RECURSIVE NatOf(_)
NatOf(ds) == IF ds = <<>> THEN 0 ELSE 10 * NatOf(SubSeq(ds, 1, Len(ds) - 1)) + DigitValue(ds[Len(ds)])
AllDigits(ds) == \A i \in 1..Len(ds) : IsDigit(ds[i])
Unsigned(t) == IF t # <<>> /\ t[1] \in {"-", "+"} THEN Tail(t) ELSE t
Negative(t) == t # <<>> /\ t[1] = "-"

RECURSIVE ZeroPadRight(_)
ZeroPadRight(ds) == IF Len(ds) >= 3 THEN ds ELSE ZeroPadRight(Append(ds, "0"))

\* int(token): an optional sign and one digit or more
PyInt(t) ==
    LET ds == Unsigned(t)
    IN  IF ds = <<>> \/ ~AllDigits(ds) THEN [ok |-> FALSE, v |-> 0]
        ELSE [ok |-> TRUE, v |-> IF Negative(t) THEN -NatOf(ds) ELSE NatOf(ds)]

\* float(token), for a token without exponent and with three decimals at
\* most: an optional sign, digits, and a point with digits on a side or both
PyFloat(t) ==
    LET ds == Unsigned(t)
        dots == {i \in 1..Len(ds) : ds[i] = "."}
        dot == IF dots = {} THEN Len(ds) + 1 ELSE CHOOSE i \in dots : TRUE
        whole == SubSeq(ds, 1, dot - 1)
        frac == SubSeq(ds, dot + 1, Len(ds))
        milli == NatOf(whole) * 1000 + NatOf(ZeroPadRight(frac))
    IN  IF Cardinality(dots) > 1 \/ ~AllDigits(whole) \/ ~AllDigits(frac)
           \/ (whole = <<>> /\ frac = <<>>) \/ Len(frac) > 3
        THEN [ok |-> FALSE, v |-> 0]
        ELSE [ok |-> TRUE, v |-> IF Negative(t) THEN -milli ELSE milli]

\* str(n) of an int
StrInt(n) == IF n < 0 THEN <<"-">> \o IntDigits(-n) ELSE IntDigits(n)

\* str(x) of a float: the whole part, a point, and the decimals without
\* trailing zeros, one at least
StrFloat(v) ==
    LET m == IF v < 0 THEN -v ELSE v
        d3 == ZeroPad(IntDigits(m % 1000), 3)
        frac == IF m % 1000 = 0 THEN <<"0">>
                ELSE IF m % 10 # 0 THEN d3
                ELSE IF m % 100 # 0 THEN SubSeq(d3, 1, 2)
                ELSE SubSeq(d3, 1, 1)
    IN  (IF v < 0 THEN <<"-">> ELSE <<>>) \o IntDigits(m \div 1000) \o <<".">> \o frac

\* field.type(field_value) of _cast_fields_types on one field; the value of
\* a field left to its default is the int of the dataclass
CastField(type, given, value) ==
    CASE type = "str" -> [ok |-> TRUE, k |-> "str", v |-> value]
      [] type = "int" ->
            IF given THEN [ok |-> PyInt(value).ok, k |-> "int", v |-> PyInt(value).v]
            ELSE [ok |-> TRUE, k |-> "int", v |-> value]
      [] type = "float" ->
            IF given THEN [ok |-> PyFloat(value).ok, k |-> "float", v |-> PyFloat(value).v]
            ELSE [ok |-> TRUE, k |-> "float", v |-> 1000 * value]

\* DiamondNHead built from data[:headsize], on text tokens
DecodeHead(f, data) ==
    LET headsize == Len(HeadTypes(f))
        given == SubSeq(data, 1, Min(headsize, Len(data)))
        defaults == HeadDefaults(f)
        missing == headsize - Len(given)
        fields == [i \in 1..headsize |->
                      IF i <= Len(given) THEN CastField(HeadTypes(f)[i], TRUE, given[i])
                      ELSE CastField(HeadTypes(f)[i], FALSE,
                                     defaults[Len(defaults) - (headsize - i)].v)]
    IN  IF missing > Len(defaults) THEN [ok |-> FALSE, err |-> "TypeError", fields |-> <<>>]
        ELSE IF \E i \in 1..headsize : ~fields[i].ok
             THEN [ok |-> FALSE, err |-> "ValueError", fields |-> <<>>]
        ELSE [ok |-> TRUE, err |-> "", fields |-> fields]

\* tuple(map(str, astuple(self.head)))
EncodeHead(fields) ==
    [i \in 1..Len(fields) |->
        CASE fields[i].k = "str" -> fields[i].v
          [] fields[i].k = "int" -> StrInt(fields[i].v)
          [] fields[i].k = "float" -> StrFloat(fields[i].v)]

\* the header tokens read: 'diamond', the format number, a description, and
\* one text for every int field and one for every float field
IntTexts == {<<"9">>, <<"0", "9">>, <<"-", "5">>, <<"1", "2", "0">>}
FloatTexts == {<<"5", "0", "0">>, <<"5", "0", "0", ".", "0">>, <<"1", ".", "8", "7", "5">>,
               <<"-", "1", ".", "5", "0">>, <<"0", ".", "5">>}
HeaderTokens(f, intText, floatText, cut) ==
    LET n == Len(HeadTypes(f))
    IN  [i \in 1..(n - cut) |->
            IF i = 1 THEN <<"d", "i", "a", "m", "o", "n", "d">>
            ELSE IF i = 2 THEN IntDigits(f)
            ELSE IF i = 3 THEN <<"d", "e", "s", "c">>
            ELSE IF HeadTypes(f)[i] = "int" THEN intText
            ELSE floatText]

HRead ==
    /\ hpc = "idle"
    /\ \E f \in HeadFormats, intText \in IntTexts, floatText \in FloatTexts, cut \in {0, 2} :
          /\ hInput' = [format |-> f, tokens |-> HeaderTokens(f, intText, floatText, cut)]
          /\ hResult' = [head |-> DecodeHead(f, HeaderTokens(f, intText, floatText, cut)),
                         written |-> <<>>]
    /\ hpc' = "read"
    /\ UNCHANGED <<clientVars, decoderVars, gridSelVars, walkVars, frameVars, artistVars>>

HWrite ==
    /\ hpc = "read"
    /\ hResult.head.ok
    /\ hResult' = [hResult EXCEPT !.written = EncodeHead(hResult.head.fields)]
    /\ hpc' = "written"
    /\ UNCHANGED <<hInput, clientVars, decoderVars, gridSelVars, walkVars, frameVars,
                   artistVars>>

HeadNext == HRead \/ HWrite
HeadSpec == Init /\ [][HeadNext]_vars

\* C24 (the claim as stated): the header tokens written from the decoded
\* head are the header tokens that were read.
C24_HeaderRoundTrip ==
    (hpc = "written") => hResult.written = hInput.tokens

(***************************************************************************)
(* MdfsClient.walk and MdfsClient.get_path_file_list (client.py).  The     *)
(* server holds a finite directory tree.  A directory is the resultMap     *)
(* that getFileList answers for it: a map from the entry names to 'D' for  *)
(* a sub-directory and to the size for a file.  A path is the sequence of  *)
(* the names from the listed path downwards.  walk is a recursive          *)
(* generator; kResult.stack holds its frames, the innermost last.          *)
(***************************************************************************)
MaxDepth == 2

EntryNames == {"a", "b"}

Absent == [k |-> "-", sub |-> <<>>]
FileEntry == [k |-> "1024", sub |-> <<>>]
DirEntry(listing) == [k |-> "D", sub |-> listing]

\* The directory trees of at most d levels of sub-directories.
RECURSIVE Trees(_)
Trees(d) ==
    IF d = 0 THEN {[n \in EntryNames |-> Absent]}
    ELSE [EntryNames -> {Absent, FileEntry} \cup {DirEntry(t) : t \in Trees(d - 1)}]

\* The listing of the directory at a path of the tree.
RECURSIVE ListingAt(_, _)
ListingAt(tree, path) ==
    IF path = <<>> THEN tree ELSE ListingAt(tree[Head(path)].sub, Tail(path))

\* result.resultMap of get_file_list(directory): the entries that exist.
ResultMap(tree, directory) ==
    LET listing == ListingAt(tree, directory)
    IN  [n \in {m \in EntryNames : listing[m].k # "-"} |-> listing[n].k]

\* dirs and nondirs of walk, as sets: the order of the map is not fixed.
WalkDirs(resultMap) == {n \in DOMAIN resultMap : resultMap[n] = "D"}
WalkNondirs(resultMap) == {n \in DOMAIN resultMap : resultMap[n] # "D"}

\* urljoin(directory, dirname) and os.path.join(top, file) with a directory
\* that ends in '/': the name is put after the directory.
JoinPath(directory, name) == Append(directory, name)

\* A frame of walk: its directory, its two lists, the sub-directories the
\* for loop has not reached yet.
WalkFrame(tree, directory) ==
    LET resultMap == ResultMap(tree, directory)
    IN  [directory |-> directory,
         dirs      |-> WalkDirs(resultMap),
         nondirs   |-> WalkNondirs(resultMap),
         todo      |-> WalkDirs(resultMap)]

\* The orders in which a for loop can go through a set.
OrdersOf(S) ==
    {q \in [1..Cardinality(S) -> S] : \A i, j \in DOMAIN q : q[i] = q[j] => i = j}

\* The paths that get_path_file_list yields for one tuple of walk.
YieldsOf(frame, order) ==
    IF Cardinality(frame.dirs) = 0 /\ Cardinality(frame.nondirs) > 0
    THEN [i \in DOMAIN order |-> JoinPath(frame.directory, order[i])]
    ELSE <<>>

\* get_path_file_list(path) is called: walk lists the path.
KStart ==
    /\ kpc = "idle"
    /\ \E tree \in Trees(MaxDepth) :
           /\ kInput' = [tree |-> tree]
           /\ kResult' = [stack |-> <<WalkFrame(tree, <<>>)>>, yielded |-> <<>>]
    /\ kpc' = "walking"
    /\ UNCHANGED <<clientVars, decoderVars, gridSelVars, headVars, frameVars, artistVars>>

\* The for loop of walk reaches a sub-directory: yield from self.walk.
KDescend ==
    /\ kpc = "walking"
    /\ LET n == Len(kResult.stack)
           frame == kResult.stack[n]
       IN  /\ frame.todo # {}
           /\ \E dirname \in frame.todo :
                  kResult' = [kResult EXCEPT
                      !.stack = Append([@ EXCEPT ![n].todo = @ \ {dirname}],
                                       WalkFrame(kInput.tree,
                                                 JoinPath(frame.directory, dirname)))]
    /\ UNCHANGED <<kpc, kInput, clientVars, decoderVars, gridSelVars, headVars,
                   frameVars, artistVars>>

\* The for loop of walk is over: the directory is yielded, and
\* get_path_file_list yields its files when it has no sub-directory.
KReturn ==
    /\ kpc = "walking"
    /\ LET n == Len(kResult.stack)
           frame == kResult.stack[n]
       IN  /\ frame.todo = {}
           /\ \E order \in OrdersOf(frame.nondirs) :
                  kResult' = [stack   |-> SubSeq(kResult.stack, 1, n - 1),
                              yielded |-> kResult.yielded \o YieldsOf(frame, order)]
           /\ kpc' = IF n = 1 THEN "done" ELSE "walking"
    /\ UNCHANGED <<kInput, clientVars, decoderVars, gridSelVars, headVars,
                   frameVars, artistVars>>

WalkNext == KStart \/ KDescend \/ KReturn

WalkSpec == Init /\ [][WalkNext]_vars

\* The paths of the files anywhere under a directory of the tree.
RECURSIVE FilesUnder(_, _)
FilesUnder(listing, directory) ==
    UNION {IF listing[n].k = "-" THEN {}
           ELSE IF listing[n].k = "D"
                THEN FilesUnder(listing[n].sub, JoinPath(directory, n))
                ELSE {JoinPath(directory, n)} : n \in EntryNames}

\* C25: when get_path_file_list is exhausted it has yielded the path of
\* every file anywhere under the path, each of them exactly once.
C25_EveryFileOnce ==
    (kpc = "done") =>
        /\ {kResult.yielded[i] : i \in DOMAIN kResult.yielded}
               = FilesUnder(kInput.tree, <<>>)
        /\ Len(kResult.yielded) = Cardinality(FilesUnder(kInput.tree, <<>>))


(***************************************************************************)
(* The cursor of the line parsers of Diamond14 (diamond/diamond14.py):     *)
(* read_lines, read_lines_symbol and read_wthprop_linesymbols.  A pass of  *)
(* the loop gives the positions of data it read (counted from 0 as in the  *)
(* source) and the cursor it leaves.                                       *)
(***************************************************************************)
MaxPoints == 2

PassRaised(e) == [ok |-> FALSE, err |-> e, reads |-> {}, next |-> 0]
PassOk(reads, next) == [ok |-> TRUE, err |-> "", reads |-> reads, next |-> next]

\* the positions that data[a:b] reads
SliceReads(data, a, b) == SliceBound(a, Len(data))..(SliceBound(b, Len(data)) - 1)

\* idx += label_num * 3 + 1 of read_lines_symbol, without its label points
LabelSkipCountOnly(label_num) == 1

\* idx += label_num * 3 + 1 (diamond14.py:228)
LabelSkip(label_num) == label_num * 3 + 1

\* xyz_num = int(data[idx]); xyz = np.array(data[idx + 1:...]).astype(float);
\* xyz.shape = [xyz_num, 3]: the cursor after the points, given the
\* positions read before
PointsPass(data, idx, reads) ==
    IF idx >= Len(data) THEN PassRaised("IndexError")
    ELSE IF data[idx + 1].k # "int" THEN PassRaised("ValueError")
    ELSE LET xyz_num == data[idx + 1].v
             xyz == PySlice(data, idx + 1, idx + 1 + 3 * xyz_num)
         IN  IF ~Numeric(xyz) \/ xyz_num < 0 \/ Len(xyz) # 3 * xyz_num
             THEN PassRaised("ValueError")
             ELSE PassOk(reads \cup {idx} \cup SliceReads(data, idx + 1, idx + 1 + 3 * xyz_num),
                         idx + 1 + 3 * xyz_num)

\* label = data[idx]; label_num = int(data[idx + 1]); the label points when
\* label_num > 0 (diamond14.py:158-176, 606-623)
LabelPass(data, idx, reads) ==
    IF idx + 1 >= Len(data) THEN PassRaised("IndexError")
    ELSE IF data[idx + 2].k # "int" THEN PassRaised("ValueError")
    ELSE LET label_num == data[idx + 2].v
             label_xyz == PySlice(data, idx + 2, idx + 2 + 3 * label_num)
         IN  IF label_num <= 0 THEN PassOk(reads \cup {idx, idx + 1}, idx + 2)
             ELSE IF ~Numeric(label_xyz) \/ Len(label_xyz) # 3 * label_num
             THEN PassRaised("ValueError")
             ELSE PassOk(reads \cup {idx, idx + 1}
                             \cup SliceReads(data, idx + 2, idx + 2 + 3 * label_num),
                         idx + 2 + 3 * label_num)

\* one pass of the loop of read_lines (diamond14.py:141-176)
LinesPass(data, idx) ==
    IF idx >= Len(data) THEN PassRaised("IndexError")
    ELSE IF ~Numeric(<<data[idx + 1]>>) THEN PassRaised("ValueError")
    ELSE LET points == PointsPass(data, idx + 1, {idx})
         IN  IF ~points.ok THEN points ELSE LabelPass(data, points.next, points.reads)

\* one pass of the loop of read_lines_symbol (diamond14.py:200-228)
LinesSymbolPass(data, idx) ==
    IF idx >= Len(data) THEN PassRaised("IndexError")
    ELSE IF data[idx + 1].k # "int" THEN PassRaised("ValueError")
    ELSE IF idx + 1 >= Len(data) THEN PassRaised("IndexError")
    ELSE IF ~Numeric(<<data[idx + 2]>>) THEN PassRaised("ValueError")
    ELSE LET points == PointsPass(data, idx + 2, {idx, idx + 1})
             at == points.next
         IN  IF ~points.ok THEN points
             ELSE IF at + 1 >= Len(data) THEN PassRaised("IndexError")
             ELSE IF data[at + 2].k # "int" THEN PassRaised("ValueError")
             ELSE PassOk(points.reads \cup {at, at + 1},
                         at + 1 + LabelSkip(data[at + 2].v))

\* one pass of the loop of read_wthprop_linesymbols (diamond14.py:569-623)
WthPropPass(data, idx) ==
    IF idx >= Len(data) THEN PassRaised("IndexError")
    ELSE IF data[idx + 1].k # "int" THEN PassRaised("ValueError")
    ELSE IF idx + 1 >= Len(data) THEN PassRaised("IndexError")
    ELSE IF ~Numeric(<<data[idx + 2]>>) THEN PassRaised("ValueError")
    ELSE IF ~Integral(PySlice(data, idx + 2, idx + 6)) THEN PassRaised("ValueError")
    ELSE IF idx + 7 >= Len(data) THEN PassRaised("IndexError")
    ELSE IF ~Integral(<<data[idx + 7], data[idx + 8]>>) THEN PassRaised("ValueError")
    ELSE LET points == PointsPass(data, idx + 8, idx..(idx + 7))
         IN  IF ~points.ok THEN points ELSE LabelPass(data, points.next, points.reads)

SectionPass(section, data, idx) ==
    CASE section = "LINES" -> LinesPass(data, idx)
      [] section = "LINES_SYMBOL" -> LinesSymbolPass(data, idx)
      [] section = "WithProp_LINESYMBOLS" -> WthPropPass(data, idx)

ScanRaised(e) == [ok |-> FALSE, err |-> e, starts |-> <<>>, reads |-> {}]

\* for i in range(nlines), i records being read already; starts holds the
\* cursor at the head of each pass
RECURSIVE ScanLoop(_, _, _, _, _, _, _)
ScanLoop(section, data, nlines, i, idx, starts, reads) ==
    IF i >= nlines THEN [ok |-> TRUE, err |-> "", starts |-> starts, reads |-> reads]
    ELSE LET r == SectionPass(section, data, idx)
         IN  IF ~r.ok THEN ScanRaised(r.err)
             ELSE ScanLoop(section, data, nlines, i + 1, r.next,
                           Append(starts, idx), reads \cup r.reads)

\* read_lines(content), read_lines_symbol(content),
\* read_wthprop_linesymbols(content): data[1] is the number of records
ScanSection(section, data) ==
    IF Len(data) < 2 THEN ScanRaised("IndexError")
    ELSE IF data[2].k # "int" THEN ScanRaised("ValueError")
    ELSE ScanLoop(section, data, data[2].v, 0, 2, <<>>, {1})

\* A record of a section with n points and m label points, as the file
\* holds it.
LineTokens(section, n, m) ==
    (CASE section = "LINES" -> <<FloatTok(1)>>
       [] section = "LINES_SYMBOL" -> <<IntTok(1102), FloatTok(1)>>
       [] section = "WithProp_LINESYMBOLS" ->
              <<IntTok(1102), FloatTok(1), IntTok(255), IntTok(0), IntTok(0), IntTok(255),
                IntTok(0), IntTok(0)>>)
    \o <<IntTok(n)>> \o Floats(3 * n) \o <<WordTok, IntTok(m)>> \o Floats(3 * m)

LineSections == {"LINES", "LINES_SYMBOL", "WithProp_LINESYMBOLS"}

\* The sections scanned: the key, the declared number of records, the
\* records declared and, after them, tokens that no count declares.
ScanInput(section, shapes, declared) ==
    LET recs == [i \in DOMAIN shapes |-> LineTokens(section, shapes[i][1], shapes[i][2])]
    IN  [section  |-> section,
         shapes   |-> shapes,
         recs     |-> recs,
         declared |-> declared,
         data     |-> <<WordTok, IntTok(declared)>> \o Concat(recs)]

D14Scan ==
    /\ d14pc = "idle"
    /\ \E section \in LineSections, k \in 0..(MaxRecords + 1) :
       \E shapes \in [1..k -> (0..MaxPoints) \X (0..1)], declared \in 0..Min(k, MaxRecords) :
           LET in == ScanInput(section, shapes, declared)
           IN  /\ d14Input' = in
               /\ d14Result' = ScanSection(in.section, in.data)
    /\ d14pc' = "scanned"
    /\ UNCHANGED <<clientVars, laterVars, textVars, d5Vars, d7Vars, latlonVars, gridVars,
                   stationVars>>

ScanNext == D14Scan
ScanSpec == Init /\ [][ScanNext]_vars

\* The position of the first token of record i of the input (i from 1),
\* and the position after the last token of the declared records.
RecordStart(recs, i) == 2 + Len(Concat(SubSeq(recs, 1, i - 1)))

\* C26: on a well-formed section each record is read from the position right
\* after the last token that the counts of the record before it declare (3
\* tokens per point and per label point), and no token is read beyond the
\* last token of the last declared record.
C26_ReadsWhatCountsDeclare ==
    (d14pc = "scanned") =>
        /\ d14Result.ok
        /\ Len(d14Result.starts) = d14Input.declared
        /\ \A i \in 1..d14Input.declared :
              d14Result.starts[i] = RecordStart(d14Input.recs, i)
        /\ \A p \in d14Result.reads :
              p < RecordStart(d14Input.recs, d14Input.declared + 1)

\* read_lines_symbol has read two records, the first with label points, and
\* the section holds a third record that is not declared.
C26_Witness ==
    /\ d14pc = "scanned"
    /\ d14Input.section = "LINES_SYMBOL"
    /\ d14Input.declared = 2
    /\ Len(d14Input.recs) > 2
    /\ d14Input.shapes[1][2] = 1
    /\ d14Result.ok
    /\ Len(d14Result.starts) = 2


\* C27: in a buffer read as several blocks, the magnitude and the angle
\* decoded for block i are those of bytes [i * block_size, (i + 1) *
\* block_size) of the buffer, for every block i.
C27_BlockFromOwnBytes ==
    (mpc = "done" /\ mResult.ok /\ mResult.stacked) =>
        \A i \in 1..Len(mResult.blocks) :
            /\ mResult.blocks[i].magnitude = BlockAlone(i).magnitude
            /\ mResult.blocks[i].angle = BlockAlone(i).angle


(***************************************************************************)
(* Diamond5.to_frame and Diamond7.to_frame (diamond5.py:221-233,           *)
(* diamond7.py:211-223), called at the end of read.  A table is the        *)
(* sequence of its rows, a row being its key in the index and its values.  *)
(***************************************************************************)
FrameRaised(e) == [ok |-> FALSE, err |-> e, keys |-> <<>>, data |-> <<>>, table |-> <<>>]

\* self.index.loc[self.index.index.repeat(nrecs)][self.index_cols]: the key
\* of index row t, nrecs[t] times
RepeatIndex(keys, nrecs) ==
    Concat([t \in 1..Len(keys) |-> [r \in 1..nrecs[t] |-> keys[t]]])

\* np.hstack(self.data): the rows of the tracks one after the other
Hstack(data) == Concat(data)

\* pd.DataFrame.from_records(np.hstack(self.data), index=multi_index)
TrackFrame(keys, nrecs, data) ==
    LET multi_index == RepeatIndex(keys, nrecs)
        rows == Hstack(data)
    IN  IF (\E t \in 1..Len(nrecs) : nrecs[t] < 0) \/ Len(multi_index) # Len(rows)
        THEN FrameRaised("ValueError")
        ELSE [ok |-> TRUE, err |-> "", keys |-> keys, data |-> data,
              table |-> [i \in 1..Len(rows) |-> [key |-> multi_index[i], row |-> rows[i]]]]

\* Diamond7.to_frame of the object read: index_cols are name, sn, center
Diamond7Frame(obj) ==
    TrackFrame([t \in 1..Len(obj.index) |-> SubSeq(obj.index[t], 1, 3)],
               [t \in 1..Len(obj.index) |-> obj.index[t][4].v],
               obj.data)

\* record.reshape(-1, len(self.dtype)) of Diamond5.read
Levels(record) ==
    [r \in 1..(Len(record) \div LevelWidth) |->
        Values(SubSeq(record, LevelWidth * (r - 1) + 1, LevelWidth * r))]

\* Diamond5.to_frame of the object read: index_cols are stid, lon, lat,
\* height, and nrecs is nrec // len(self.dtype)
Diamond5Frame(res) ==
    TrackFrame([t \in 1..Len(res.indices) |-> SubSeq(res.indices[t], 1, 4)],
               [t \in 1..Len(res.indices) |-> res.indices[t][IndexWidth].v \div LevelWidth],
               [t \in 1..Len(res.records) |-> Levels(res.records[t])])

\* The Diamond7 files read: each track with its index line, which declares
\* nrec, its data lines and its terminator line.
TrackRow(t, r) ==
    <<IntTok(2006), IntTok(9), IntTok(24), IntTok(8), IntTok(10 * t + r), FloatTok(111300),
      FloatTok(15900), FloatTok(995000), FloatTok(18000), FloatTok(100000), FloatTok(0),
      FloatTok(292500), FloatTok(15000)>>
FrameFile(shape) ==
    <<Diamond7HeadLine>>
        \o Concat([t \in 1..Len(shape) |->
                      <<<<NameTok(t), NameTok(10 + t), NameTok(20 + t), IntTok(shape[t][1])>>>>
                          \o [r \in 1..shape[t][2] |-> TrackRow(t, r)]
                          \o <<Terminator>>])

\* Diamond7.read of a file: the object is decoded and to_frame builds _ds.
F7Read ==
    /\ fpc = "idle"
    /\ \E n \in 1..MaxTracks :
       \E shape \in [1..n -> (0..(MaxRows + 1)) \X (1..MaxRows)] :
           LET data == FrameFile(shape)
               read == Diamond7Read(data)
           IN  /\ fInput' = [format |-> 7, data |-> data]
               /\ fResult' = IF read.ok /\ read.obj.decoded THEN Diamond7Frame(read.obj)
                             ELSE FrameRaised(read.err)
    /\ fpc' = "done"
    /\ UNCHANGED <<clientVars, decoderVars, gridSelVars, headVars, walkVars, artistVars>>

\* Diamond5.read of a file: the object is decoded and to_frame builds _ds.
F5Read ==
    /\ fpc = "idle"
    /\ \E data \in Diamond5Files :
           LET read == Diamond5Read(data)
           IN  /\ fInput' = [format |-> 5, data |-> data]
               /\ fResult' = IF read.ok THEN Diamond5Frame(read) ELSE FrameRaised(read.err)
    /\ fpc' = "done"
    /\ UNCHANGED <<clientVars, decoderVars, gridSelVars, headVars, walkVars, artistVars>>

FrameNext == F7Read \/ F5Read
FrameSpec == Init /\ [][FrameNext]_vars

\* C28: the table that to_frame builds has one row per decoded data row, in
\* the order of the tracks, and each row has the key of the index record of
\* the track that the data row was read from.
C28_RowsKeyedByTrack ==
    (fpc = "done" /\ fResult.ok) =>
        fResult.table =
            Concat([t \in 1..Len(fResult.data) |->
                       [r \in 1..Len(fResult.data[t]) |->
                           [key |-> fResult.keys[t], row |-> fResult.data[t][r]]]])


(***************************************************************************)
(* The filename of a leaf built from the guessed template (client.py:      *)
(* 126-130), on a directory whose latest name is written in one of the     *)
(* five shapes for a known init time and forecast hour.                    *)
(***************************************************************************)
\* A name of shape k for the init time t and the forecast hour fh, between
\* the characters pre and suf.
ShapedName(k, t, fh, sep, pre, suf) ==
    CASE k = 1 -> pre \o Strftime(YmdHMS, t) \o <<".">> \o Format03d(fh) \o suf
      [] k = 2 -> pre \o Strftime(ymdH, t) \o <<".">> \o Format03d(fh)
      [] k = 3 -> pre \o Strftime(Ymd, t) \o <<sep>> \o Strftime(HMS, t) \o suf
      [] k = 4 -> pre \o Strftime(Ymd, t) \o <<sep>> \o Strftime(HM, t) \o suf
      [] k = 5 -> pre \o Strftime(YmdHMS, t) \o suf

NameTimes == {115200, 172800, 262800}
NameFhs == {0, 24, 120}
NamePrefixes == {<<>>, <<"x">>, <<"g", "_">>}
NameSuffixes == {<<>>, <<"x">>, <<".", "n", "c">>}

\* _sel without a wildcard keyword: the template is guessed from the listing
\* and formatted with the init time and the forecast hour of the leaf.
WildcardRebuild ==
    /\ wpc = "idle"
    /\ \E k \in 1..5, t \in NameTimes, fh \in NameFhs, sep \in {".", "_"},
          pre \in NamePrefixes, suf \in NameSuffixes :
          LET reply == ListingOf({ShapedName(k, t, fh, sep, pre, suf)})
              guessed == GuessFilenameWildcard(reply)
              filename == IF guessed.ok THEN FormatTemplate(guessed.wildcard, t, fh)
                          ELSE <<>>
          IN  /\ wListing' = reply
              /\ wResult' = guessed
              /\ wTime' = [inittime |-> t, fh1 |-> fh, fh2 |-> fh, name1 |-> filename,
                           name2 |-> filename, shape |-> k]
    /\ wpc' = "rebuilt"
    /\ UNCHANGED <<selVars, guessVars, decoderVars, laterVars>>

RebuildNext == WildcardRebuild
RebuildSpec == Init /\ [][RebuildNext]_vars

\* C29: when the latest name of the directory is written in one of the five
\* shapes, the template guessed from it, formatted with the init time and
\* the forecast hour that the name holds, is that name, character by
\* character.
C29_FormatGivesName ==
    (wpc = "rebuilt" /\ FirstShape(Latest(wListing.names)) = wTime.shape) =>
        /\ wResult.ok
        /\ wTime.name1 = Latest(wListing.names)


(***************************************************************************)
(* Diamond14.read, Diamond14.separate_artist, Diamond14.sel and            *)
(* Diamond14.__getitem__ (diamond/diamond14.py:58-127, 644-646).  The      *)
(* text of a file is held as the segments that re.split cuts it into: the  *)
(* head, and for each section its marker and the segment after it: the     *)
(* characters that follow the marker up to the first blank, then the       *)
(* tokens.  A dictionary is a function from its keys.                      *)
(***************************************************************************)
\* the nine section names, in the order of read
ArtistNames ==
    <<<<"L", "I", "N", "E", "S">>,
      <<"L", "I", "N", "E", "S", "_", "S", "Y", "M", "B", "O", "L">>,
      <<"S", "Y", "M", "B", "O", "L", "S">>,
      <<"C", "L", "O", "S", "E", "D", "_", "C", "O", "N", "T", "O", "U", "R",
        "S">>,
      <<"S", "T", "A", "T", "I", "O", "N", "_", "S", "I", "T", "U", "A", "T",
        "I", "O", "N">>,
      <<"W", "E", "A", "T", "H", "E", "R", "_", "R", "E", "G", "I", "O", "N">>,
      <<"F", "I", "L", "L", "A", "R", "E", "A">>,
      <<"N", "O", "T", "E", "S", "_", "S", "Y", "M", "B", "O", "L">>,
      <<"W", "i", "t", "h", "P", "r", "o", "p", "_", "L", "I", "N", "E", "S",
        "Y", "M", "B", "O", "L", "S">>>>

\* the markers of the pattern of re.split: a newline, the name and a colon,
\* the colon missing after STATION_SITUATION
ArtistMarker(i) ==
    <<"\n">> \o ArtistNames[i] \o (IF i = 5 THEN <<>> ELSE <<":">>)

\* the key under which read stores the section of each parser: the name,
\* with a colon after the last one (diamond14.py:85-96)
DataKey(i) == ArtistNames[i] \o (IF i = 9 THEN <<":">> ELSE <<>>)

\* segments[i * 2 + 1].split(':')[0][1:]
RECURSIVE BeforeColon(_)
BeforeColon(text) ==
    IF text = <<>> \/ Head(text) = ":" THEN <<>>
    ELSE <<Head(text)>> \o BeforeColon(Tail(text))
MarkerKey(marker) == Tail(BeforeColon(marker))

ArtistRaised(e) == [ok |-> FALSE, err |-> e, val |-> <<>>]
ArtistOk(v) == [ok |-> TRUE, err |-> "", val |-> v]

\* separate_artist: the sections by key; the content of a section is its
\* marker without the newline, then the segment after it
SeparateArtist(segments) ==
    LET n == Len(segments) - 1
        keys == {MarkerKey(segments[2 * i]) : i \in 1..(n \div 2)}
    IN  IF n % 2 # 0 THEN ArtistRaised("Exception")
        ELSE ArtistOk([key \in keys |->
                 LET i == CHOOSE j \in 1..(n \div 2) :
                              /\ MarkerKey(segments[2 * j]) = key
                              /\ \A l \in (j + 1)..(n \div 2) : MarkerKey(segments[2 * l]) # key
                 IN  <<Tail(segments[2 * i]) \o Head(segments[2 * i + 1])>>
                         \o Tail(segments[2 * i + 1])])

\* read: each of the nine parsers is given its section, and its result is
\* stored under its key
Diamond14Read(segments) ==
    LET parts == SeparateArtist(segments)
    IN  IF ~parts.ok THEN parts
        ELSE IF \E i \in 1..9 : ArtistNames[i] \notin DOMAIN parts.val
             THEN ArtistRaised("KeyError")
        ELSE ArtistOk([key \in {DataKey(i) : i \in 1..9} |->
                 LET i == CHOOSE j \in 1..9 : DataKey(j) = key
                 IN  [parser |-> i, content |-> parts.val[ArtistNames[i]]]])

\* sel(element)
Diamond14Sel(data, element) ==
    IF ~element.some THEN ArtistRaised("NotImplementedError")
    ELSE IF element.v \notin DOMAIN data THEN ArtistRaised("KeyError")
    ELSE ArtistOk(data[element.v])

\* __getitem__(artist)
Diamond14GetItem(data, artist) ==
    IF artist \notin DOMAIN data THEN ArtistRaised("KeyError") ELSE ArtistOk(data[artist])

\* The files read: the nine sections from section first on, section i
\* declaring counts[i] records and holding none of them.
ArtistFile(first, counts) ==
    <<<<WordTok, IntTok(14), WordTok>>>>
        \o Concat([p \in 1..9 |->
                      LET i == ((first + p - 2) % 9) + 1
                      IN  <<ArtistMarker(i),
                            <<IF i = 5 THEN <<":">> ELSE <<>>, IntTok(counts[i])>>>>])

ARead ==
    /\ apc = "idle"
    /\ \E first \in 1..9, c \in 0..1 :
           LET segments == ArtistFile(first, [i \in 1..9 |-> IF i = first THEN c ELSE 0])
           IN  /\ aInput' = [segments |-> segments, op |-> "", element |-> <<>>]
               /\ aResult' = [read |-> Diamond14Read(segments), got |-> ArtistRaised("")]
    /\ apc' = "read"
    /\ UNCHANGED <<clientVars, decoderVars, gridSelVars, headVars, walkVars, frameVars>>

\* sel(element=N) on the object read, N a name with or without the colon
ASel ==
    /\ apc = "read"
    /\ aResult.read.ok
    /\ \E i \in 1..9, colon \in BOOLEAN :
           LET element == ArtistNames[i] \o (IF colon THEN <<":">> ELSE <<>>)
           IN  /\ aInput' = [aInput EXCEPT !.op = "sel", !.element = element]
               /\ aResult' = [aResult EXCEPT
                                  !.got = Diamond14Sel(aResult.read.val,
                                                       [some |-> TRUE, v |-> element])]
    /\ apc' = "done"
    /\ UNCHANGED <<clientVars, decoderVars, gridSelVars, headVars, walkVars, frameVars>>

\* the object read is indexed with N
AGetItem ==
    /\ apc = "read"
    /\ aResult.read.ok
    /\ \E i \in 1..9, colon \in BOOLEAN :
           LET artist == ArtistNames[i] \o (IF colon THEN <<":">> ELSE <<>>)
           IN  /\ aInput' = [aInput EXCEPT !.op = "getitem", !.element = artist]
               /\ aResult' = [aResult EXCEPT
                                  !.got = Diamond14GetItem(aResult.read.val, artist)]
    /\ apc' = "done"
    /\ UNCHANGED <<clientVars, decoderVars, gridSelVars, headVars, walkVars, frameVars>>

ArtistNext == ARead \/ ASel \/ AGetItem
ArtistSpec == Init /\ [][ArtistNext]_vars

\* the tokens of section i of the file read: the name with its colon, then
\* the tokens up to the next marker
SectionTokens(i) ==
    LET at == CHOOSE j \in 1..9 : aInput.segments[2 * j] = ArtistMarker(i)
    IN  <<ArtistNames[i] \o <<":">>>> \o Tail(aInput.segments[2 * at + 1])

\* C30: after a file with the nine sections is read, sel(element=N) and
\* indexing with N give the section decoded by the parser of N, for each of
\* the nine names N written without the colon.
C30_EveryNameSelects ==
    (apc = "done") =>
        \A i \in 1..9 :
            aInput.element = ArtistNames[i] =>
                /\ aResult.got.ok
                /\ aResult.got.val = [parser |-> i, content |-> SectionTokens(i)]

====
